---- MODULE Spec2Model ----
(***************************************************************************)
(* RTMP chunk transport of ssungk/ertmp: chunk codec, Writer, Reader and   *)
(* the Transport orchestrator, modelled at the level of wire bytes.        *)
(*                                                                         *)
(* A uint32 that can exceed 2^31-1 (timestamps, deltas, message stream     *)
(* ids, anything decoded from four wire bytes) is the pair <<hi, lo>> of   *)
(* its 16-bit halves; arithmetic on it is modulo 2^32.  Message lengths    *)
(* (24 bits on the wire) and byte counters are plain naturals.             *)
(***************************************************************************)
EXTENDS Integers, Sequences, FiniteSets, TLC

\* ------------------------------------------------------------------------
\* Protocol constants
\* ------------------------------------------------------------------------
DefaultChunkSize == 128
MaxChunkSize == 16777215
ExtendedTimestampThreshold == 16777215
RTMPVersion == 3
HandshakeSize == 1536
MsgTypeSetChunkSize == 1
MsgTypeAbort == 2
MsgTypeAcknowledgement == 3
MsgTypeUserControl == 4
MsgTypeWindowAckSize == 5
MsgTypeSetPeerBW == 6
MsgTypeAudio == 8
MsgTypeVideo == 9
MsgTypeAMF3Data == 15
MsgTypeAMF3Command == 17
MsgTypeAMF0Data == 18
MsgTypeAMF0Command == 20
ChunkStreamProtocol == 2
ChunkStreamCommand == 3
ChunkStreamAudio == 4
ChunkStreamVideo == 5
ChunkStreamData == 6
UserControlPingRequest == 6
UserControlPingResponse == 7
FmtType0 == 0
FmtType1 == 1
FmtType2 == 2
FmtType3 == 3

\* ------------------------------------------------------------------------
\* uint32 arithmetic on 16-bit halves
\* ------------------------------------------------------------------------
Half == 256 * 256

U32Zero == <<0, 0>>

\* the uint32 with value n, for n below 2^31
U32FromNat(n) == <<n \div Half, n % Half>>

\* an addition that does not wrap at 2^32
Add32Wide(a, b) ==
  LET lo == a[2] + b[2]
  IN  <<a[1] + b[1] + (lo \div Half), lo % Half>>

\* a + b modulo 2^32
Add32(a, b) ==
  LET lo == a[2] + b[2]
  IN  <<(a[1] + b[1] + (lo \div Half)) % Half, lo % Half>>

\* a - b modulo 2^32
Sub32(a, b) ==
  LET borrow == IF a[2] < b[2] THEN 1 ELSE 0
  IN  <<(a[1] - b[1] - borrow + Half) % Half, (a[2] - b[2] + Half) % Half>>

\* a >= n for a uint32 a and a natural n below 2^31
GE32(a, n) ==
  \/ a[1] > n \div Half
  \/ a[1] = n \div Half /\ a[2] >= n % Half

\* a = n for a uint32 a and a natural n below 2^31
EQ32(a, n) == a = U32FromNat(n)

\* value of a uint32 known to be below 2^31
U32ToNat(a) == a[1] * Half + a[2]

\* uint32(x) of a natural x below 2^31
Trunc32(x) == U32FromNat(x)

\* ------------------------------------------------------------------------
\* Byte encodings
\* ------------------------------------------------------------------------
Min(a, b) == IF a < b THEN a ELSE b

\* s[from+1 .. from+n] of a byte sequence
Slice(s, from, n) == SubSeq(s, from + 1, from + n)

\* s without its first n elements
Drop(s, n) == SubSeq(s, n + 1, Len(s))

\* WriteUint24BE: the low 24 bits of a natural, big endian
WriteUint24BE(v) == <<(v \div 65536) % 256, (v \div 256) % 256, v % 256>>

\* binary.BigEndian.PutUint32
PutUint32BE(a) == <<a[1] \div 256, a[1] % 256, a[2] \div 256, a[2] % 256>>

\* binary.LittleEndian.PutUint32
PutUint32LE(a) == <<a[2] % 256, a[2] \div 256, a[1] % 256, a[1] \div 256>>

\* readUint24BE: three bytes at offset o, as a natural
readUint24BE(s, o) == s[o + 1] * 65536 + s[o + 2] * 256 + s[o + 3]

\* readUint32BE: four bytes at offset o
readUint32BE(s, o) == <<s[o + 1] * 256 + s[o + 2], s[o + 3] * 256 + s[o + 4]>>

\* readUint32LE: four bytes at offset o
readUint32LE(s, o) == <<s[o + 4] * 256 + s[o + 3], s[o + 2] * 256 + s[o + 1]>>

\* readUint16LE: two bytes at offset o
readUint16LE(s, o) == s[o + 1] + s[o + 2] * 256

\* ------------------------------------------------------------------------
\* Message header
\* ------------------------------------------------------------------------
\* the zero value of MessageHeader
ZeroHeader ==
  [Timestamp |-> U32Zero, hasExtendedTimestamp |-> FALSE,
   TimestampDelta |-> U32Zero, MessageLength |-> 0,
   MessageTypeID |-> 0, MessageStreamID |-> U32Zero]

NewMessageHeader(streamID, timestamp, typeID) ==
  [ZeroHeader EXCEPT !.MessageStreamID = streamID,
                     !.Timestamp = timestamp,
                     !.MessageTypeID = typeID]

\* the 24-bit timestamp field: the value, saturated at the threshold
TimestampField(t) ==
  IF GE32(t, ExtendedTimestampThreshold)
    THEN ExtendedTimestampThreshold
    ELSE U32ToNat(t)

\* the 4-byte extended timestamp that follows the header, when needed
ExtendedField(t) ==
  IF GE32(t, ExtendedTimestampThreshold) THEN PutUint32BE(t) ELSE <<>>

\* MessageHeader.WriteTo: the bytes of the message header for a format
MessageHeaderWriteTo(h, fmtType) ==
  CASE fmtType = FmtType0 ->
         WriteUint24BE(TimestampField(h.Timestamp))
           \o WriteUint24BE(h.MessageLength)
           \o <<h.MessageTypeID>>
           \o PutUint32LE(h.MessageStreamID)
           \o ExtendedField(h.Timestamp)
    [] fmtType = FmtType1 ->
         WriteUint24BE(TimestampField(h.TimestampDelta))
           \o WriteUint24BE(h.MessageLength)
           \o <<h.MessageTypeID>>
           \o ExtendedField(h.TimestampDelta)
    [] fmtType = FmtType2 ->
         WriteUint24BE(TimestampField(h.TimestampDelta))
           \o ExtendedField(h.TimestampDelta)
    [] OTHER -> <<>>

\* ------------------------------------------------------------------------
\* Basic header
\* ------------------------------------------------------------------------
\* a basic header whose 3-byte form carries the id big-endian
BasicHeaderWriteToBE(fmtType, chunkStreamID) ==
  IF chunkStreamID < 64
    THEN <<fmtType * 64 + chunkStreamID>>
    ELSE IF chunkStreamID < 320
      THEN <<fmtType * 64, chunkStreamID - 64>>
      ELSE <<fmtType * 64 + 1,
             ((chunkStreamID - 64) \div 256) % 256,
             (chunkStreamID - 64) % 256>>

\* basicHeader.WriteTo: 1, 2 or 3 bytes for a format and a chunk stream id
BasicHeaderWriteTo(fmtType, chunkStreamID) ==
  IF chunkStreamID < 64
    THEN <<fmtType * 64 + chunkStreamID>>
    ELSE IF chunkStreamID < 320
      THEN <<fmtType * 64, chunkStreamID - 64>>
      ELSE <<fmtType * 64 + 1,
             (chunkStreamID - 64) % 256,
             ((chunkStreamID - 64) \div 256) % 256>>

\* readBasicHeader at offset o of s; ok is FALSE while bytes are missing
readBasicHeader(s, o) ==
  IF Len(s) < o + 1
    THEN [ok |-> FALSE, fmt |-> 0, chunkStreamID |-> 0, n |-> 0]
    ELSE
      LET b    == s[o + 1]
          f    == b \div 64
          csid == b % 64
      IN  CASE csid = 0 ->
                 IF Len(s) < o + 2
                   THEN [ok |-> FALSE, fmt |-> f, chunkStreamID |-> 0, n |-> 0]
                   ELSE [ok |-> TRUE, fmt |-> f,
                         chunkStreamID |-> s[o + 2] + 64, n |-> 2]
            [] csid = 1 ->
                 IF Len(s) < o + 3
                   THEN [ok |-> FALSE, fmt |-> f, chunkStreamID |-> 0, n |-> 0]
                   ELSE [ok |-> TRUE, fmt |-> f,
                         chunkStreamID |-> readUint16LE(s, o + 1) + 64, n |-> 3]
            [] OTHER -> [ok |-> TRUE, fmt |-> f, chunkStreamID |-> csid, n |-> 1]

\* ------------------------------------------------------------------------
\* Reading a message header
\* ------------------------------------------------------------------------
\* a *MessageHeader: nil, or a pointer to a header
NilHeader == <<>>

PtrTo(h) == <<h>>

\* result of a header read: ok is FALSE while bytes are missing,
\* err names the error returned ("" for none)
HeaderResult(ok, err, mh, n) == [ok |-> ok, err |-> err, mh |-> mh, n |-> n]

Blocked == HeaderResult(FALSE, "", ZeroHeader, 0)

\* the timestamp or delta after the fixed part of the header: the 24-bit
\* field, or the extended field at offset e when the field is saturated
ExtendedValue(s, field, e) ==
  IF field = ExtendedTimestampThreshold
    THEN readUint32BE(s, e)
    ELSE U32FromNat(field)

readMessageHeaderFmt0(s, o) ==
  IF Len(s) < o + 11 THEN Blocked
  ELSE
    LET field == readUint24BE(s, o)
        ext   == field = ExtendedTimestampThreshold
    IN  IF ext /\ Len(s) < o + 15 THEN Blocked
        ELSE
          LET timestamp == ExtendedValue(s, field, o + 11)
          IN  HeaderResult(TRUE, "",
                [Timestamp |-> timestamp,
                 hasExtendedTimestamp |-> ext,
                 TimestampDelta |-> timestamp,
                 MessageLength |-> readUint24BE(s, o + 3),
                 MessageTypeID |-> s[o + 7],
                 MessageStreamID |-> readUint32LE(s, o + 7)],
                IF ext THEN 15 ELSE 11)

readMessageHeaderFmt1(s, o, prevHeader) ==
  IF prevHeader = NilHeader
    THEN HeaderResult(TRUE, "ErrNoPreviousHeader", ZeroHeader, 0)
  ELSE IF Len(s) < o + 7 THEN Blocked
  ELSE
    LET field == readUint24BE(s, o)
        ext   == field = ExtendedTimestampThreshold
    IN  IF ext /\ Len(s) < o + 11 THEN Blocked
        ELSE
          LET timestampDelta == ExtendedValue(s, field, o + 7)
          IN  HeaderResult(TRUE, "",
                [Timestamp |-> Add32(prevHeader[1].Timestamp, timestampDelta),
                 hasExtendedTimestamp |-> ext,
                 TimestampDelta |-> timestampDelta,
                 MessageLength |-> readUint24BE(s, o + 3),
                 MessageTypeID |-> s[o + 7],
                 MessageStreamID |-> prevHeader[1].MessageStreamID],
                IF ext THEN 11 ELSE 7)

readMessageHeaderFmt2(s, o, prevHeader) ==
  IF prevHeader = NilHeader
    THEN HeaderResult(TRUE, "ErrNoPreviousHeader", ZeroHeader, 0)
  ELSE IF Len(s) < o + 3 THEN Blocked
  ELSE
    LET field == readUint24BE(s, o)
        ext   == field = ExtendedTimestampThreshold
    IN  IF ext /\ Len(s) < o + 7 THEN Blocked
        ELSE
          LET timestampDelta == ExtendedValue(s, field, o + 3)
          IN  HeaderResult(TRUE, "",
                [Timestamp |-> Add32(prevHeader[1].Timestamp, timestampDelta),
                 hasExtendedTimestamp |-> ext,
                 TimestampDelta |-> timestampDelta,
                 MessageLength |-> prevHeader[1].MessageLength,
                 MessageTypeID |-> prevHeader[1].MessageTypeID,
                 MessageStreamID |-> prevHeader[1].MessageStreamID],
                IF ext THEN 7 ELSE 3)

readMessageHeaderFmt3(s, o, prevHeader) ==
  IF prevHeader = NilHeader
    THEN HeaderResult(TRUE, "ErrNoPreviousHeader", ZeroHeader, 0)
  ELSE IF prevHeader[1].hasExtendedTimestamp /\ Len(s) < o + 4 THEN Blocked
  ELSE
    LET timestampDelta ==
          IF prevHeader[1].hasExtendedTimestamp
            THEN readUint32BE(s, o)
            ELSE prevHeader[1].TimestampDelta
    IN  HeaderResult(TRUE, "",
          [Timestamp |-> Add32(prevHeader[1].Timestamp, timestampDelta),
           hasExtendedTimestamp |-> prevHeader[1].hasExtendedTimestamp,
           TimestampDelta |-> timestampDelta,
           MessageLength |-> prevHeader[1].MessageLength,
           MessageTypeID |-> prevHeader[1].MessageTypeID,
           MessageStreamID |-> prevHeader[1].MessageStreamID],
          IF prevHeader[1].hasExtendedTimestamp THEN 4 ELSE 0)

readMessageHeader(s, o, fmtType, prevHeader) ==
  CASE fmtType = FmtType0 -> readMessageHeaderFmt0(s, o)
    [] fmtType = FmtType1 -> readMessageHeaderFmt1(s, o, prevHeader)
    [] fmtType = FmtType2 -> readMessageHeaderFmt2(s, o, prevHeader)
    [] OTHER              -> readMessageHeaderFmt3(s, o, prevHeader)

\* ------------------------------------------------------------------------
\* Messages
\* ------------------------------------------------------------------------
\* NewMessage(header, data): the length field is set from the data
NewMessage(header, data) ==
  [Header |-> [header EXCEPT !.MessageLength = Len(data)], data |-> data]

\* ------------------------------------------------------------------------
\* Writer
\* ------------------------------------------------------------------------
\* Writer.getChunkStreamID: the chunk stream a message type is sent on
getChunkStreamID(msgType) ==
  CASE msgType \in {MsgTypeSetChunkSize, MsgTypeAbort, MsgTypeAcknowledgement,
                    MsgTypeWindowAckSize, MsgTypeSetPeerBW, MsgTypeUserControl}
         -> ChunkStreamProtocol
    [] msgType \in {MsgTypeAMF0Command, MsgTypeAMF3Command} -> ChunkStreamCommand
    [] msgType = MsgTypeAudio -> ChunkStreamAudio
    [] msgType = MsgTypeVideo -> ChunkStreamVideo
    [] msgType \in {MsgTypeAMF0Data, MsgTypeAMF3Data} -> ChunkStreamData
    [] OTHER -> ChunkStreamCommand

\* a format choice that resends length and type when only the timestamp moved
determineFormatTypeResend(prevHeader, currHeader) ==
  IF prevHeader.MessageStreamID # currHeader.MessageStreamID THEN FmtType0
  ELSE IF \/ prevHeader.MessageLength # currHeader.MessageLength
          \/ prevHeader.MessageTypeID # currHeader.MessageTypeID
          \/ prevHeader.Timestamp # currHeader.Timestamp THEN FmtType1
  ELSE FmtType3

\* Writer.determineFormatType
determineFormatType(prevHeader, currHeader) ==
  IF prevHeader.MessageStreamID # currHeader.MessageStreamID THEN FmtType0
  ELSE IF \/ prevHeader.MessageLength # currHeader.MessageLength
          \/ prevHeader.MessageTypeID # currHeader.MessageTypeID THEN FmtType1
  ELSE IF prevHeader.Timestamp # currHeader.Timestamp THEN FmtType2
  ELSE FmtType3

\* the format WriteMessage picks for the first chunk of msg
FormatFor(prevHeaders, msg) ==
  LET csid == getChunkStreamID(msg.Header.MessageTypeID)
  IN  IF csid \notin DOMAIN prevHeaders
        THEN FmtType0
        ELSE determineFormatType(prevHeaders[csid], msg.Header)

\* the hasExtendedTimestamp flag WriteMessage sets on the header it writes
ExtendedFlag(header) ==
  \/ header.hasExtendedTimestamp
  \/ GE32(header.Timestamp, ExtendedTimestampThreshold)
  \/ GE32(header.TimestampDelta, ExtendedTimestampThreshold)

\* headerToWrite of WriteMessage: the message's header with the delta the
\* format needs and the extended-timestamp flag
HeaderToWrite(prevHeaders, msg) ==
  LET csid    == getChunkStreamID(msg.Header.MessageTypeID)
      fmtType == FormatFor(prevHeaders, msg)
      delta   == IF fmtType = FmtType0 THEN msg.Header.Timestamp
                 ELSE IF fmtType \in {FmtType1, FmtType2}
                   THEN Sub32(msg.Header.Timestamp, prevHeaders[csid].Timestamp)
                   ELSE msg.Header.TimestampDelta
      h       == [msg.Header EXCEPT !.TimestampDelta = delta]
  IN  [h EXCEPT !.hasExtendedTimestamp = ExtendedFlag(h)]

\* a writer that never fragments: the whole rest of the payload in one chunk
ChunkDataSizeWhole(totalBytes, bytesWritten, chunkSize) ==
  totalBytes - bytesWritten

\* the size of the chunk that starts at offset bytesWritten
ChunkDataSize(totalBytes, bytesWritten, chunkSize) ==
  Min(chunkSize, totalBytes - bytesWritten)

\* the extended timestamp WriteMessage puts after a continuation header
ContinuationExt(headerToWrite) ==
  IF headerToWrite.hasExtendedTimestamp
    THEN PutUint32BE(headerToWrite.TimestampDelta)
    ELSE <<>>

\* the chunk loop of WriteMessage, from offset bytesWritten on: one record
\* per chunk with its basic header, message header, continuation extended
\* timestamp and payload bytes
RECURSIVE WriteChunks(_, _, _, _, _, _)
WriteChunks(data, bytesWritten, chunkSize, fmtType, csid, headerToWrite) ==
  IF bytesWritten >= Len(data) THEN <<>>
  ELSE
    LET size  == ChunkDataSize(Len(data), bytesWritten, chunkSize)
        first == bytesWritten = 0
        chunk ==
          [fmt    |-> IF first THEN fmtType ELSE FmtType3,
           csid   |-> csid,
           basic  |-> BasicHeaderWriteTo(IF first THEN fmtType ELSE FmtType3, csid),
           header |-> IF first THEN MessageHeaderWriteTo(headerToWrite, fmtType)
                               ELSE <<>>,
           ext    |-> IF first THEN <<>> ELSE ContinuationExt(headerToWrite),
           data   |-> Slice(data, bytesWritten, size)]
    IN  <<chunk>> \o WriteChunks(data, bytesWritten + size, chunkSize,
                                 fmtType, csid, headerToWrite)

ChunkBytes(c) == c.basic \o c.header \o c.ext \o c.data

RECURSIVE Flatten(_)
Flatten(chunks) ==
  IF chunks = <<>> THEN <<>>
  ELSE ChunkBytes(Head(chunks)) \o Flatten(Tail(chunks))

\* p with p[k] set to v, k added to the domain when absent
MapPut(p, k, v) == [c \in DOMAIN p \cup {k} |-> IF c = k THEN v ELSE p[c]]

\* Writer.WriteMessage on writer state (prevHeaders, chunkSize): the format
\* and header chosen, the chunks emitted and the updated prevHeaders
WriteMessage(prevHeaders, chunkSize, msg) ==
  LET csid    == getChunkStreamID(msg.Header.MessageTypeID)
      fmtType == FormatFor(prevHeaders, msg)
      header  == HeaderToWrite(prevHeaders, msg)
      chunks  == WriteChunks(msg.data, 0, chunkSize, fmtType, csid, header)
  IN  [csid        |-> csid,
       fmt         |-> fmtType,
       header      |-> header,
       chunks      |-> chunks,
       bytes       |-> Flatten(chunks),
       prevHeaders |-> MapPut(prevHeaders, csid, header)]

\* a check of the chunk size that knows no maximum
ValidChunkSizeMin(size) == size >= 1

\* Writer.SetChunkSize accepts sizes 1..MaxChunkSize only
ValidChunkSize(size) == size >= 1 /\ size <= MaxChunkSize

\* ------------------------------------------------------------------------
\* Reader
\* ------------------------------------------------------------------------
NewChunkStream ==
  [MessageHeader |-> ZeroHeader, PrevHeader |-> ZeroHeader,
   buffers |-> <<>>, BytesRead |-> 0]

\* a reader that assembles the chunks of all chunk streams in one place
getChunkStreamShared(chunkStreams, id) ==
  IF DOMAIN chunkStreams # {}
    THEN chunkStreams[CHOOSE c \in DOMAIN chunkStreams : TRUE]
    ELSE NewChunkStream

\* Reader.getChunkStream: the chunk stream of id, created when absent
getChunkStream(chunkStreams, id) ==
  IF id \in DOMAIN chunkStreams THEN chunkStreams[id] ELSE NewChunkStream

\* ChunkStream.AppendBuffer
AppendBuffer(cs, buf) ==
  [cs EXCEPT !.buffers = Append(@, buf), !.BytesRead = @ + Len(buf)]

\* a chunk stream that counts as complete from its first byte
IsCompleteEager(cs) == cs.BytesRead >= 1

\* ChunkStream.IsComplete
IsComplete(cs) == cs.BytesRead >= cs.MessageHeader.MessageLength

\* a hand-over that also forgets the header of the message
MoveBuffersReset(cs) ==
  [cs EXCEPT !.buffers = <<>>, !.BytesRead = 0, !.MessageHeader = ZeroHeader]

\* ChunkStream.MoveBuffers: what is left in the chunk stream
MoveBuffers(cs) == [cs EXCEPT !.buffers = <<>>, !.BytesRead = 0]

RECURSIVE Concat(_)
Concat(bufs) == IF bufs = <<>> THEN <<>> ELSE Head(bufs) \o Concat(Tail(bufs))

\* Message.Data of a message assembled from chunk buffers: the buffers in
\* order, cut at the header's message length
Data(m) ==
  LET all == Concat(m.buffers)
  IN  SubSeq(all, 1, Min(Len(all), m.Header.MessageLength))

\* a chunk size masked to 24 bits
MaskedChunkSize24(data) ==
  LET u == readUint32BE(data, 0)
  IN  (u[1] % 256) * Half + u[2]

\* the chunk size carried by a 4-byte SetChunkSize payload, masked to 31 bits
MaskedChunkSize(data) ==
  LET u == readUint32BE(data, 0)
  IN  (u[1] % 32768) * Half + u[2]

\* the length checks of protocol control messages
ValidControlLength(typeID, len) ==
  CASE typeID \in {MsgTypeSetChunkSize, MsgTypeAbort, MsgTypeAcknowledgement,
                   MsgTypeWindowAckSize} -> len = 4
    [] typeID = MsgTypeUserControl -> len >= 2
    [] typeID = MsgTypeSetPeerBW -> len = 5
    [] OTHER -> TRUE

\* the result of Reader.readChunk on the bytes pending on the connection.
\*   ok   FALSE while the chunk is not wholly there (the read blocks)
\*   err  "" or the failing stage
\*   n    bytes consumed
\*   size payload bytes of this chunk, with the remaining length it was
\*        computed from
ChunkResult(ok, err, n, csid, size, remaining, chunkStreams) ==
  [ok |-> ok, err |-> err, n |-> n, csid |-> csid, size |-> size,
   remaining |-> remaining, chunkStreams |-> chunkStreams]

ChunkBlocked(chunkStreams) == ChunkResult(FALSE, "", 0, 0, 0, 0, chunkStreams)

\* readChunk from the chunk-size computation on: cs is the chunk stream
\* with its message header settled, o the offset of the chunk data
readChunkData(s, chunkStreams, chunkSize, csid, cs, o) ==
  LET remainingBytes == cs.MessageHeader.MessageLength - cs.BytesRead
      chunkDataSize  == Min(chunkSize, remainingBytes)
  IN  IF chunkDataSize <= 0 THEN
        ChunkResult(TRUE, "chunk data", o, csid, 0, remainingBytes,
                    MapPut(chunkStreams, csid, cs))
      ELSE IF Len(s) < o + chunkDataSize THEN ChunkBlocked(chunkStreams)
      ELSE
        ChunkResult(TRUE, "", o + chunkDataSize, csid, chunkDataSize,
                    remainingBytes,
                    MapPut(chunkStreams, csid,
                           AppendBuffer(cs, Slice(s, o, chunkDataSize))))

\* readChunk once the message header hr was read: a new message takes the
\* header, a message in assembly keeps its own
readChunkHeader(s, chunkStreams, chunkSize, bh, cs, hr) ==
  IF ~hr.ok THEN ChunkBlocked(chunkStreams)
  ELSE IF hr.err # "" THEN
    ChunkResult(TRUE, hr.err, bh.n, bh.chunkStreamID, 0, 0,
                MapPut(chunkStreams, bh.chunkStreamID, cs))
  ELSE
    readChunkData(s, chunkStreams, chunkSize, bh.chunkStreamID,
                  IF cs.BytesRead = 0 THEN [cs EXCEPT !.MessageHeader = hr.mh]
                                      ELSE cs,
                  bh.n + hr.n)

\* readChunk once the basic header bh was read: the message header is read
\* against the chunk stream's PrevHeader
readChunkStream(s, chunkStreams, chunkSize, bh, cs) ==
  readChunkHeader(s, chunkStreams, chunkSize, bh, cs,
                  readMessageHeader(s, bh.n, bh.fmt, PtrTo(cs.PrevHeader)))

\* Reader.readChunk
readChunk(s, chunkStreams, chunkSize) ==
  IF ~readBasicHeader(s, 0).ok THEN ChunkBlocked(chunkStreams)
  ELSE readChunkStream(s, chunkStreams, chunkSize, readBasicHeader(s, 0),
                       getChunkStream(chunkStreams,
                                      readBasicHeader(s, 0).chunkStreamID))

\* Reader.handleProtocolControl: the reader's chunk size after the message
\* (a SetChunkSize of valid length and value is applied, errors of
\* SetChunkSize are ignored)
ReaderChunkSizeAfter(chunkSize, msg) ==
  IF /\ msg.Header.MessageTypeID = MsgTypeSetChunkSize
     /\ Len(Data(msg)) = 4
     /\ ValidChunkSize(MaskedChunkSize(Data(msg)))
    THEN MaskedChunkSize(Data(msg))
    ELSE chunkSize

\* Reader.getReadyMessage(csid): msg is <<>> (nil) or <<the message>>
getReadyMessage(chunkStreams, chunkSize, csid) ==
  LET none == [msg |-> <<>>, chunkStreams |-> chunkStreams,
               chunkSize |-> chunkSize]
  IN  IF csid \notin DOMAIN chunkStreams THEN none
      ELSE
        LET cs == chunkStreams[csid]
        IN  IF ~IsComplete(cs) THEN none
            ELSE
              LET msg   == [Header |-> cs.MessageHeader, buffers |-> cs.buffers]
                  moved == MoveBuffers(cs)
                  valid == ValidControlLength(msg.Header.MessageTypeID,
                                              Len(Data(msg)))
              IN  IF ~valid
                    THEN [msg |-> <<>>,
                          chunkStreams |-> [chunkStreams EXCEPT ![csid] = moved],
                          chunkSize |-> chunkSize]
                    ELSE [msg |-> <<msg>>,
                          chunkStreams |->
                            [chunkStreams EXCEPT ![csid] =
                               [moved EXCEPT !.PrevHeader = cs.MessageHeader]],
                          chunkSize |-> ReaderChunkSizeAfter(chunkSize, msg)]

\* the outcome of one iteration of the loop of Reader.ReadMessage
StepResult(rc, msg, chunkStreams, chunkSize) ==
  [ok |-> rc.ok, err |-> rc.err, n |-> rc.n, csid |-> rc.csid,
   size |-> rc.size, remaining |-> rc.remaining, msg |-> msg,
   chunkStreams |-> chunkStreams, chunkSize |-> chunkSize]

StepReady(rc, rm) == StepResult(rc, rm.msg, rm.chunkStreams, rm.chunkSize)

\* the iteration after readChunk returned rc: an error ends the call,
\* otherwise getReadyMessage looks for a complete message
StepAfterChunk(rc, chunkSize) ==
  IF ~rc.ok \/ rc.err # ""
    THEN StepResult(rc, <<>>, rc.chunkStreams, chunkSize)
    ELSE StepReady(rc, getReadyMessage(rc.chunkStreams, chunkSize, rc.csid))

\* one iteration of the loop of Reader.ReadMessage: readChunk, then
\* getReadyMessage when the chunk was read
ReadMessageStep(s, chunkStreams, chunkSize) ==
  StepAfterChunk(readChunk(s, chunkStreams, chunkSize), chunkSize)

\* ------------------------------------------------------------------------
\* Bounds and inputs
\* ------------------------------------------------------------------------
\* longest payload of a written message
MaxLen == 3

\* messages handed to Writer.WriteMessage in one run
MaxWrites == 2

\* payload bytes 0xC3, 0xC4, ...: each one is also a well-formed fmt-3 basic
\* header, and no two bytes of a payload are equal
PayloadByte(i) == (194 + i) % 256

Payload(n) == [i \in 1..n |-> PayloadByte(i)]

\* timestamps around the extended-timestamp threshold and the 32-bit maximum
Timestamps ==
  {U32Zero, <<255, 65534>>, <<255, 65535>>, <<256, 0>>, <<65535, 65535>>}

\* (message type, message stream id) of the written messages: two types on
\* the command chunk stream, two stream ids, one type on the video stream
Kinds ==
  {<<MsgTypeAMF0Command, <<0, 1>>>>, <<MsgTypeAMF3Command, <<0, 1>>>>,
   <<MsgTypeAMF0Command, <<0, 2>>>>, <<MsgTypeVideo, <<0, 1>>>>}

\* chunk sizes after SetChunkSize on both ends: several chunks, an uneven
\* tail, and the default
ChunkSizes == {1, 2, DefaultChunkSize}

\* the messages a caller builds: NewMessage(NewMessageHeader(..), payload)
Messages ==
  {NewMessage(NewMessageHeader(k[2], t, k[1]), Payload(n)) :
     k \in Kinds, t \in Timestamps, n \in 0..MaxLen}

EmptyMap == [c \in {} |-> ZeroHeader]

\* ------------------------------------------------------------------------
\* State
\* ------------------------------------------------------------------------
VARIABLES
  reader,     \* Reader: chunkStreams, chunkSize
  writer,     \* Writer: prevHeaders, chunkSize
  conn,       \* meteredConn, its buffered writer and the stream under it
  transport,  \* Transport: windowAckSize, peerBandwidth, lastAckSent
  peer,       \* the remote end: its writer state and its chunks not yet sent
  inWire,     \* bytes sent to this end and not yet read
  outWire,    \* bytes this end has flushed to the remote end
  written,    \* history: the calls of Writer.WriteMessage
  received,   \* history: the messages returned by ReadMessage
  chunkLog,   \* history: per chunk stream, the chunks of the message in assembly
  calls,      \* history: the calls of Conn.WriteMessage
  rerr,       \* "" or the error ReadMessage returned
  hs,         \* the handshake on the raw stream: its position and the stream
  heap        \* the buffers and the messages that refer to them

vars == <<reader, writer, conn, transport, peer, inWire, outWire,
          written, received, chunkLog, calls, rerr, hs, heap>>

\* what the calls on an established connection leave alone
aside == <<hs, heap>>

\* ------------------------------------------------------------------------
\* Construction
\* ------------------------------------------------------------------------
NewReader == [chunkStreams |-> [c \in {} |-> NewChunkStream],
              chunkSize |-> DefaultChunkSize]

NewWriter == [prevHeaders |-> EmptyMap, chunkSize |-> DefaultChunkSize]

\* werr is the error the buffered writer keeps once a flush failed; closed
\* tells that the stream under it accepts no more bytes
newMeteredConn == [bytesRead |-> 0, bytesWritten |-> 0, wbuf |-> <<>>,
                   werr |-> FALSE, closed |-> FALSE]

NewTransport ==
  [windowAckSize |-> U32Zero, peerBandwidth |-> U32Zero, lastAckSent |-> 0]

\* a handshake of the given role before its first step, on a stream on which
\* nothing has been sent: pc is the step it is at; c0, c1, s0, s1 are its
\* buffers; rd holds the bytes that arrived and are not yet read, arrived
\* all bytes that arrived, wr the bytes written, sent the packets the remote
\* end has sent; eof and wbroken tell that reads and writes fail from now
\* on; ops records the reads and writes made on the stream
NewHandshake(role) ==
  [role |-> role, pc |-> 1, err |-> <<>>,
   c0 |-> <<>>, c1 |-> <<>>, s0 |-> <<>>, s1 |-> <<>>,
   rd |-> <<>>, eof |-> FALSE, sent |-> 0, arrived |-> <<>>,
   wr |-> <<>>, wbroken |-> FALSE, ops |-> <<>>]

\* an established connection: no handshake is running
NoHandshake == NewHandshake("none")

\* no buffer and no message has been made: bufs are the buffers, msgs the
\* messages, each with its header and the index of its buffer, log the
\* calls made on them
NoHeap == [bufs |-> <<>>, msgs |-> <<>>, log |-> <<>>]

\* the remote end before it has sent anything
NewPeer == [prevHeaders |-> EmptyMap, chunkSize |-> DefaultChunkSize,
            pending |-> [c \in {} |-> <<>>], inFlight |-> 0, log |-> <<>>,
            emitted |-> <<>>]

\* ------------------------------------------------------------------------
\* A Writer and a Reader at the two ends of one connection
\* ------------------------------------------------------------------------
\* after NewWriter, NewReader and SetChunkSize(S) on each of them
InitRT ==
  \E S \in ChunkSizes :
    /\ ValidChunkSize(S)
    /\ reader = [NewReader EXCEPT !.chunkSize = S]
    /\ writer = [NewWriter EXCEPT !.chunkSize = S]
    /\ conn = newMeteredConn
    /\ transport = NewTransport
    /\ peer = NewPeer
    /\ inWire = <<>>
    /\ outWire = <<>>
    /\ written = <<>>
    /\ received = <<>>
    /\ chunkLog = [c \in {} |-> <<>>]
    /\ calls = <<>>
    /\ rerr = ""
    /\ hs = NoHandshake
    /\ heap = NoHeap

\* the record kept of one call of Writer.WriteMessage
WrittenEntry(w, msg, prevHeaders, chunkSize) ==
  [msg |-> msg, csid |-> w.csid, fmt |-> w.fmt, header |-> w.header,
   chunks |-> w.chunks, prev |-> prevHeaders, chunkSize |-> chunkSize]

\* Writer.WriteMessage(msg): the chunks go to the buffered connection
WriterWriteMessage(msg) ==
  /\ Len(written) < MaxWrites
  /\ LET w == WriteMessage(writer.prevHeaders, writer.chunkSize, msg)
     IN  /\ writer' = [writer EXCEPT !.prevHeaders = w.prevHeaders]
         /\ conn' = [conn EXCEPT !.wbuf = @ \o w.bytes,
                                 !.bytesWritten = @ + Len(w.bytes)]
         /\ written' = Append(written,
                         WrittenEntry(w, msg, writer.prevHeaders, writer.chunkSize))
  /\ UNCHANGED <<aside, reader, transport, peer, inWire, outWire, received,
                 chunkLog, calls, rerr>>

\* Writer.Flush: the buffered bytes reach the reading end
WriterFlush ==
  /\ conn.wbuf # <<>>
  /\ inWire' = inWire \o conn.wbuf
  /\ conn' = [conn EXCEPT !.wbuf = <<>>]
  /\ UNCHANGED <<aside,
                 reader, writer, transport, peer, outWire, written, received,
                 chunkLog, calls, rerr>>

\* the chunk log of csid after a chunk of size bytes was read; at is the
\* number of messages returned before the chunk, fmt the format its basic
\* header named
LogChunk(log, r, chunkSize) ==
  LET old == IF r.csid \in DOMAIN log THEN log[r.csid] ELSE <<>>
  IN  Append(old, [size |-> r.size, chunkSize |-> chunkSize,
                   remaining |-> r.remaining, at |-> Len(received),
                   fmt |-> Head(inWire) \div 64])

\* the message handed to the caller: its header and Message.Data()
Returned(m) == [Header |-> m.Header, data |-> Data(m)]

\* the record kept of one return of ReadMessage; the fields after chunks
\* describe what the transport did in that call
ReceivedEntry(m, csid, chunks, n, wfrom, wto, before, rebased, sb, sa) ==
  [msg |-> Returned(m), csid |-> csid, chunks |-> chunks,
   bytesRead |-> n, wfrom |-> wfrom, wto |-> wto,
   before |-> before, rebased |-> rebased,
   streamsBefore |-> sb, streamsAfter |-> sa]

\* the effect of an iteration r of the loop of Reader.ReadMessage
ReaderStep(r) ==
  /\ r.ok
  /\ inWire' = Drop(inWire, r.n)
  /\ conn' = [conn EXCEPT !.bytesRead = @ + r.n]
  /\ reader' = [chunkStreams |-> r.chunkStreams, chunkSize |-> r.chunkSize]
  /\ rerr' = r.err
  /\ chunkLog' =
       IF r.err # "" THEN chunkLog
       ELSE MapPut(chunkLog, r.csid,
                   IF r.chunkStreams[r.csid].BytesRead = 0
                     THEN <<>>
                     ELSE LogChunk(chunkLog, r, reader.chunkSize))

\* one iteration of the loop of Reader.ReadMessage on the bytes that have
\* arrived; the call returns when a message is ready or a read fails
ReaderRead(r) ==
  /\ ReaderStep(r)
  /\ received' =
       IF r.msg = <<>> THEN received
       ELSE Append(received,
              ReceivedEntry(r.msg[1], r.csid,
                            LogChunk(chunkLog, r, reader.chunkSize),
                            conn.bytesRead + r.n,
                            Len(written), Len(written), transport, transport,
                            r.chunkStreams, r.chunkStreams))
  /\ UNCHANGED <<aside, writer, transport, peer, outWire, written, calls>>

ReaderReadMessage ==
  /\ rerr = ""
  /\ ReaderRead(ReadMessageStep(inWire, reader.chunkStreams, reader.chunkSize))

NextRT ==
  \/ \E msg \in Messages : WriterWriteMessage(msg)
  \/ WriterFlush
  \/ ReaderReadMessage

SpecRT == InitRT /\ [][NextRT]_vars

\* ------------------------------------------------------------------------
\* Reading back what was written
\* ------------------------------------------------------------------------
SameMessage(w, r) ==
  /\ r.Header.MessageTypeID = w.Header.MessageTypeID
  /\ r.Header.MessageStreamID = w.Header.MessageStreamID
  /\ r.Header.Timestamp = w.Header.Timestamp
  /\ r.data = w.data

\* C1: a single non-empty message written on a fresh Writer and read on a
\* fresh Reader with the same chunk size is read back, without a read error,
\* with the same type id, stream id and timestamp and a byte-equal payload,
\* for every timestamp and whether it fits one chunk or spans several.
C1_RoundTrip ==
  (Len(written) = 1 /\ written[1].msg.data # <<>>) =>
    /\ received = <<>> => rerr = ""
    /\ received # <<>> => SameMessage(written[1].msg, received[1].msg)

\* ------------------------------------------------------------------------
\* The chunks of a written message
\* ------------------------------------------------------------------------
\* the first chunk carried an extended-timestamp field: its 24-bit timestamp
\* or delta field was written as 0xFFFFFF (a fmt-3 header has no such field)
FirstCarriesExtended(e) ==
  /\ e.chunks[1].fmt \in {FmtType0, FmtType1, FmtType2}
  /\ SubSeq(e.chunks[1].header, 1, 3) = WriteUint24BE(ExtendedTimestampThreshold)

\* C2: every continuation chunk of a multi-chunk message carries a 4-byte
\* extended timestamp after its basic header if and only if the first chunk
\* of that message carried an extended-timestamp field, whichever format the
\* first chunk used.
C2_ContinuationExtended ==
  \A i \in 1..Len(written) :
    \A k \in 2..Len(written[i].chunks) :
      /\ Len(written[i].chunks[k].ext) \in {0, 4}
      /\ Len(written[i].chunks[k].ext) = 4 <=> FirstCarriesExtended(written[i])

CeilDiv(a, b) == (a + b - 1) \div b

RECURSIVE PayloadOfChunks(_)
PayloadOfChunks(chunks) ==
  IF chunks = <<>> THEN <<>>
  ELSE Head(chunks).data \o PayloadOfChunks(Tail(chunks))

Fragmented(e, L, S, n) ==
  /\ n = CeilDiv(L, S)
  /\ \A k \in 1..(n - 1) : Len(e.chunks[k].data) = S
  /\ Len(e.chunks[n].data) = L - S * (n - 1)
  /\ e.chunks[1].fmt = e.fmt
  /\ e.chunks[1].basic = BasicHeaderWriteTo(e.fmt, e.csid)
  /\ e.chunks[1].header = MessageHeaderWriteTo(e.header, e.fmt)
  /\ \A k \in 2..n : /\ e.chunks[k].fmt = FmtType3
                     /\ e.chunks[k].csid = e.csid
                     /\ e.chunks[k].basic = BasicHeaderWriteTo(FmtType3, e.csid)
                     /\ e.chunks[k].header = <<>>
  /\ PayloadOfChunks(e.chunks) = e.msg.data

\* C3: a payload of L > 0 bytes written with chunk size S goes out in exactly
\* ceil(L/S) chunks; all but the last carry S payload bytes, the last the
\* remaining L - S*(ceil(L/S)-1); the first carries the header of the chosen
\* format, every later one a fmt-3 basic header on the same chunk stream;
\* the chunk payloads in order are the payload.
C3_Fragmentation ==
  \A i \in 1..Len(written) :
    Len(written[i].msg.data) > 0 =>
      Fragmented(written[i], Len(written[i].msg.data), written[i].chunkSize,
                 Len(written[i].chunks))

\* a 3-byte payload written with chunk size 2: two chunks, a 1-byte tail
C3_Witness ==
  \E i \in 1..Len(written) :
    /\ Len(written[i].msg.data) = 3
    /\ written[i].chunkSize = 2
    /\ Len(written[i].chunks) = 2
    /\ Len(written[i].chunks[2].data) = 1

\* ------------------------------------------------------------------------
\* The format of a written message
\* ------------------------------------------------------------------------
\* the calls before the i-th that were on its chunk stream
EarlierOn(i) == {j \in 1..(i - 1) : written[j].csid = written[i].csid}

\* the last of them
PrevOn(i) == CHOOSE j \in EarlierOn(i) : \A k \in EarlierOn(i) : k <= j

LT32(a, b) == a[1] < b[1] \/ (a[1] = b[1] /\ a[2] < b[2])

\* the format the rule gives for header h after the header p
RuleFormat(p, h) ==
  IF p.MessageStreamID # h.MessageStreamID THEN 0
  ELSE IF p.MessageLength # h.MessageLength \/ p.MessageTypeID # h.MessageTypeID
    THEN 1
  ELSE IF p.Timestamp # h.Timestamp THEN 2
  ELSE 3

SameShape(p, h) ==
  /\ p.MessageStreamID = h.MessageStreamID
  /\ p.MessageLength = h.MessageLength
  /\ p.MessageTypeID = h.MessageTypeID

EndState(r, w, c, t, out, log, err) ==
  [reader |-> r, writer |-> w, conn |-> c, transport |-> t,
   outWire |-> out, written |-> log, err |-> err]

Failed(st, err) == [st EXCEPT !.err = err]

\* a Transport.WriteMessage that leaves the chunks in the buffered writer
WriteBuffered(st, w, msg) ==
  [st EXCEPT !.writer.prevHeaders = w.prevHeaders,
             !.conn.bytesWritten = @ + Len(w.bytes),
             !.conn.wbuf = @ \o w.bytes,
             !.written = Append(@, WrittenEntry(w, msg, st.writer.prevHeaders,
                                                st.writer.chunkSize))]

\* a Transport.WriteMessage that puts the new chunks before what is on the
\* wire
WriteFlushedFirst(st, w, msg) ==
  [st EXCEPT !.writer.prevHeaders = w.prevHeaders,
             !.conn.bytesWritten = @ + Len(w.bytes),
             !.outWire = w.bytes \o @,
             !.written = Append(@, WrittenEntry(w, msg, st.writer.prevHeaders,
                                                st.writer.chunkSize))]

\* Transport.WriteMessage once the writer produced w: the chunks are written
\* and flushed
WriteFlushed(st, w, msg) ==
  [st EXCEPT !.writer.prevHeaders = w.prevHeaders,
             !.conn.bytesWritten = @ + Len(w.bytes),
             !.outWire = @ \o w.bytes,
             !.written = Append(@, WrittenEntry(w, msg, st.writer.prevHeaders,
                                                st.writer.chunkSize))]

\* Transport.WriteMessage when the flush of the buffered writer fails: the
\* writer has written the chunks to the buffer and recorded the header, the
\* buffered writer keeps the bytes and its error
FlushFailed(st, w) ==
  [st EXCEPT !.writer.prevHeaders = w.prevHeaders,
             !.conn.bytesWritten = @ + Len(w.bytes),
             !.conn.wbuf = @ \o w.bytes,
             !.conn.werr = TRUE,
             !.err = "flush"]

\* Transport.WriteMessage: Writer.WriteMessage, then Flush. A buffered writer
\* that has failed refuses every write; a stream that is closed fails the
\* flush of a buffer that holds bytes
TransportWriteMessage(st, msg) ==
  IF st.conn.werr /\ Len(msg.data) > 0 THEN Failed(st, "rtmp write")
  ELSE IF st.conn.werr \/ (st.conn.closed /\ Len(msg.data) > 0)
    THEN FlushFailed(st, WriteMessage(st.writer.prevHeaders,
                                      st.writer.chunkSize, msg))
  ELSE WriteFlushed(st, WriteMessage(st.writer.prevHeaders,
                                     st.writer.chunkSize, msg), msg)

\* parseUserControl: the event type and the event data
parseUserControl(data) ==
  [eventType |-> data[1] * 256 + data[2], eventData |-> Drop(data, 2)]

\* a pong that carries no event data
createUserControlBare(eventType, eventData) ==
  NewMessage(NewMessageHeader(U32Zero, U32Zero, MsgTypeUserControl),
             <<eventType \div 256, eventType % 256>>)

\* createUserControl
createUserControl(eventType, eventData) ==
  NewMessage(NewMessageHeader(U32Zero, U32Zero, MsgTypeUserControl),
             <<eventType \div 256, eventType % 256>> \o eventData)

\* a clear that drops the buffer and keeps the count of bytes read
clearBufferOnly(cs) == [cs EXCEPT !.buffers = <<>>]

\* MessageAssembler.clear: the buffer is released and set to nil, the bytes
\* read are back to 0; the headers stay
clear(cs) == [cs EXCEPT !.buffers = <<>>, !.BytesRead = 0]

\* Reader.ClearChunkStream(csid): the chunk stream of that id, when there is
\* one, is cleared
ClearChunkStream(chunkStreams, csid) ==
  [c \in DOMAIN chunkStreams |->
     IF U32FromNat(c) = csid THEN clear(chunkStreams[c])
                             ELSE chunkStreams[c]]

\* a window change that keeps the old baseline
RebaseNever(t, newWindowSize, bytesRead) ==
  [t EXCEPT !.windowAckSize = newWindowSize]

\* the WindowAckSize case: a changed window moves lastAckSent to the bytes
\* read so far
Rebase(t, newWindowSize, bytesRead) ==
  [t EXCEPT !.lastAckSent = IF t.windowAckSize # newWindowSize
                               THEN bytesRead ELSE @,
            !.windowAckSize = newWindowSize]

\* the UserControl case once the message is parsed: a PingRequest is
\* answered with a PingResponse carrying the same event data
handleUserControl(st, uc) ==
  IF uc.eventType # UserControlPingRequest THEN st
  ELSE IF Len(uc.eventData) # 4 THEN Failed(st, "invalid PingRequest data length")
  ELSE TransportWriteMessage(st,
         createUserControl(UserControlPingResponse, uc.eventData))

\* Transport.handleProtocolControl
handleProtocolControl(st, msg) ==
  CASE msg.Header.MessageTypeID = MsgTypeSetChunkSize ->
         IF Len(msg.data) # 4 THEN Failed(st, "invalid SetChunkSize message length")
         ELSE IF ~ValidChunkSize(MaskedChunkSize(msg.data))
           THEN Failed(st, "chunk size")
         ELSE [st EXCEPT !.reader.chunkSize = MaskedChunkSize(msg.data)]
    [] msg.Header.MessageTypeID = MsgTypeAbort ->
         IF Len(msg.data) # 4 THEN Failed(st, "invalid Abort message length")
         ELSE [st EXCEPT !.reader.chunkStreams =
                 ClearChunkStream(@, readUint32BE(msg.data, 0))]
    [] msg.Header.MessageTypeID = MsgTypeAcknowledgement ->
         IF Len(msg.data) # 4
           THEN Failed(st, "invalid Acknowledgement message length")
           ELSE st
    [] msg.Header.MessageTypeID = MsgTypeUserControl ->
         IF Len(msg.data) < 2 THEN Failed(st, "invalid UserControl message length")
         ELSE handleUserControl(st, parseUserControl(msg.data))
    [] msg.Header.MessageTypeID = MsgTypeWindowAckSize ->
         IF Len(msg.data) # 4
           THEN Failed(st, "invalid WindowAckSize message length")
           ELSE [st EXCEPT !.transport =
                   Rebase(@, readUint32BE(msg.data, 0), st.conn.bytesRead)]
    [] msg.Header.MessageTypeID = MsgTypeSetPeerBW ->
         IF Len(msg.data) # 5
           THEN Failed(st, "invalid SetPeerBandwidth message length")
           ELSE [st EXCEPT !.transport.peerBandwidth = readUint32BE(msg.data, 0)]
    [] OTHER -> st

\* Transport.sendAcknowledgement(bytesRead): the count, cut to 32 bits, goes
\* out as an Acknowledgement with stream id 0 and timestamp 0
sendAcknowledgement(st, bytesRead) ==
  TransportWriteMessage(st,
    NewMessage(NewMessageHeader(U32Zero, U32Zero, MsgTypeAcknowledgement),
               PutUint32BE(Trunc32(bytesRead))))

\* an ACK window that is due only once it is exceeded
AckDueLate(bytesRead, lastAckSent, windowAckSize) ==
  bytesRead - lastAckSent > windowAckSize

\* the loop condition of handleAckWindow
AckDue(bytesRead, lastAckSent, windowAckSize) ==
  bytesRead - lastAckSent >= windowAckSize

\* an ACK window check that sends one Acknowledgement at most
AckLoopOnce(st) ==
  IF st.err = "" /\ AckDue(st.conn.bytesRead, st.transport.lastAckSent,
                           U32ToNat(st.transport.windowAckSize))
    THEN sendAcknowledgement(
           [st EXCEPT !.transport.lastAckSent =
                        @ + U32ToNat(st.transport.windowAckSize)],
           st.transport.lastAckSent + U32ToNat(st.transport.windowAckSize))
    ELSE st

\* the loop of handleAckWindow: one Acknowledgement per window crossed
RECURSIVE AckLoop(_)
AckLoop(st) ==
  IF st.err = "" /\ AckDue(st.conn.bytesRead, st.transport.lastAckSent,
                           U32ToNat(st.transport.windowAckSize))
    THEN AckLoop(sendAcknowledgement(
           [st EXCEPT !.transport.lastAckSent =
                        @ + U32ToNat(st.transport.windowAckSize)],
           st.transport.lastAckSent + U32ToNat(st.transport.windowAckSize)))
    ELSE st

\* an ACK window check that acknowledges every read, whatever the window
handleAckWindowEager(st) ==
  IF st.conn.bytesRead > st.transport.lastAckSent
    THEN sendAcknowledgement(
           [st EXCEPT !.transport.lastAckSent = st.conn.bytesRead],
           st.conn.bytesRead)
    ELSE st

\* Transport.handleAckWindow
handleAckWindow(st) ==
  IF st.transport.windowAckSize = U32Zero THEN st ELSE AckLoop(st)

\* ------------------------------------------------------------------------
\* The remote end
\* ------------------------------------------------------------------------
\* messages the remote end sends in one run
MaxPeerMsgs == 4

\* chunks sent and not yet read
MaxInFlight == 1

\* the payload of the k-th message of the remote end: no byte of it occurs
\* in another message
PeerPayload(k, n) == [i \in 1..n |-> (16 * k + i) % 256]

ControlMessage(typeID, data) ==
  NewMessage(NewMessageHeader(U32Zero, U32Zero, typeID), data)

\* what the remote end may send as its k-th message: protocol control
\* messages, pings, and video and command messages of several lengths
PeerMessages(k) ==
  {ControlMessage(MsgTypeSetChunkSize, PutUint32BE(<<0, 2>>)),
   ControlMessage(MsgTypeAbort, PutUint32BE(<<0, ChunkStreamVideo>>)),
   ControlMessage(MsgTypeAcknowledgement, PutUint32BE(<<0, k>>)),
   ControlMessage(MsgTypeWindowAckSize, PutUint32BE(<<0, 5>>)),
   ControlMessage(MsgTypeWindowAckSize, PutUint32BE(<<0, 16>>)),
   ControlMessage(MsgTypeSetPeerBW, PutUint32BE(<<0, 9>>) \o <<2>>),
   ControlMessage(MsgTypeUserControl, <<0, 6>> \o PeerPayload(k, 4)),
   ControlMessage(MsgTypeUserControl, <<0, 6>> \o PeerPayload(k, 2)),
   ControlMessage(MsgTypeUserControl, <<0, 0>> \o PutUint32BE(<<0, 1>>)),
   NewMessage(NewMessageHeader(<<0, 1>>, U32Zero, MsgTypeAMF0Command),
              PeerPayload(k, 2))}
  \cup {NewMessage(NewMessageHeader(<<0, 1>>, U32Zero, MsgTypeVideo),
                   PeerPayload(k, n)) : n \in 1..MaxLen}

Pending(c) == IF c \in DOMAIN peer.pending THEN peer.pending[c] ELSE <<>>

NothingPending == \A c \in DOMAIN peer.pending : peer.pending[c] = <<>>

\* the chunk stream an Abort message names
AbortTarget(msg) == U32ToNat(readUint32BE(msg.data, 0))

\* the remote end's record of a message it started
PeerEntry(msg, csid) == [msg |-> msg, csid |-> csid, aborted |-> FALSE]

\* the last message the remote end started on chunk stream c
LastOn(log, c) ==
  CHOOSE j \in DOMAIN log :
    log[j].csid = c /\ \A k \in DOMAIN log : log[k].csid = c => k <= j

\* the remote end gives up the message it is sending on chunk stream c: the
\* chunks not yet sent are dropped, the next message on c starts with fmt 0
PeerAbort(p, c) ==
  IF c \notin DOMAIN p.pending \/ p.pending[c] = <<>> THEN p
  ELSE [p EXCEPT
          !.pending = [@ EXCEPT ![c] = <<>>],
          !.prevHeaders = [d \in DOMAIN @ \ {c} |-> @[d]],
          !.log = [@ EXCEPT ![LastOn(@, c)].aborted = TRUE]]

\* the remote end after it has cut msg into the chunks of w
PeerStarted(p, msg, w) ==
  [p EXCEPT
     !.prevHeaders = w.prevHeaders,
     !.pending = MapPut(@, w.csid,
                        [k \in 1..Len(w.chunks) |-> ChunkBytes(w.chunks[k])]),
     !.chunkSize = IF /\ msg.Header.MessageTypeID = MsgTypeSetChunkSize
                        /\ Len(msg.data) = 4
                        /\ ValidChunkSize(MaskedChunkSize(msg.data))
                     THEN MaskedChunkSize(msg.data) ELSE @,
     !.log = Append(@, PeerEntry(msg, w.csid))]

PeerStartFrom(p, msg) ==
  PeerStarted(p, msg, WriteMessage(p.prevHeaders, p.chunkSize, msg))

\* the remote end starts a message: it is cut into chunks with the remote
\* writer's chunk size. A chunk size change waits until nothing is half
\* sent; an Abort makes the remote end drop the message it names.
PeerStart(msg) ==
  /\ rerr = ""
  /\ Len(peer.log) < MaxPeerMsgs
  /\ Pending(getChunkStreamID(msg.Header.MessageTypeID)) = <<>>
  /\ msg.Header.MessageTypeID = MsgTypeSetChunkSize => NothingPending
  /\ peer' = PeerStartFrom(
               IF msg.Header.MessageTypeID = MsgTypeAbort /\ Len(msg.data) = 4
                 THEN PeerAbort(peer, AbortTarget(msg)) ELSE peer,
               msg)
  /\ UNCHANGED <<aside,
                 reader, writer, conn, transport, inWire, outWire, written,
                 received, chunkLog, calls, rerr>>

\* the record of a chunk put on the wire: the message it belongs to, by its
\* place in the log, and whether it is the last chunk of that message
Emission(p, c) ==
  [csid |-> c, k |-> LastOn(p.log, c), last |-> Len(p.pending[c]) = 1,
   fmt |-> Head(Head(p.pending[c])) \div 64]

\* the remote end sends the next chunk of the message pending on chunk
\* stream c; the chunks of a protocol control message are not interleaved
\* with chunks of other streams
PeerEmit(c) ==
  /\ rerr = ""
  /\ Pending(c) # <<>>
  /\ peer.inFlight < MaxInFlight
  /\ c = ChunkStreamProtocol \/ Pending(ChunkStreamProtocol) = <<>>
  /\ inWire' = inWire \o Head(peer.pending[c])
  /\ peer' = [peer EXCEPT !.pending[c] = Tail(@), !.inFlight = @ + 1,
                          !.emitted = Append(@, Emission(peer, c))]
  /\ UNCHANGED <<aside, reader, writer, conn, transport, outWire, written,
                 received, chunkLog, calls, rerr>>

\* ------------------------------------------------------------------------
\* Transport.ReadMessage
\* ------------------------------------------------------------------------
\* the end state when the reader's loop iteration r is done
AfterStep(r) ==
  EndState([chunkStreams |-> r.chunkStreams, chunkSize |-> r.chunkSize],
           writer, [conn EXCEPT !.bytesRead = @ + r.n], transport,
           outWire, written, r.err)

\* the chunk log once the call is over: empty for the chunk streams that
\* hold no partial message
ChunkLogAfter(r, chunkStreams) ==
  [c \in DOMAIN chunkStreams |->
     IF chunkStreams[c].BytesRead = 0 THEN <<>>
     ELSE IF c = r.csid THEN LogChunk(chunkLog, r, reader.chunkSize)
     ELSE IF c \in DOMAIN chunkLog THEN chunkLog[c]
     ELSE <<>>]

\* the transport and the wire after an iteration r that left the end state
\* st1; stc is the end state between handleProtocolControl and
\* handleAckWindow
TransportEffects(r, stc, st1) ==
  /\ inWire' = Drop(inWire, r.n)
  /\ peer' = [peer EXCEPT !.inFlight = IF @ > 0 THEN @ - 1 ELSE 0]
  /\ reader' = st1.reader
  /\ writer' = st1.writer
  /\ conn' = st1.conn
  /\ transport' = st1.transport
  /\ outWire' = st1.outWire
  /\ written' = st1.written
  /\ rerr' = st1.err
  /\ chunkLog' = IF r.err # "" THEN chunkLog
                 ELSE ChunkLogAfter(r, st1.reader.chunkStreams)
  /\ received' =
       IF r.msg = <<>> \/ st1.err # "" THEN received
       ELSE Append(received,
              ReceivedEntry(r.msg[1], r.csid,
                            LogChunk(chunkLog, r, reader.chunkSize),
                            st1.conn.bytesRead, Len(written), Len(st1.written),
                            transport, stc.transport,
                            r.chunkStreams, st1.reader.chunkStreams))

\* the variables after an iteration r that left the end state st1
TransportFinish(r, stc, st1) ==
  /\ TransportEffects(r, stc, st1)
  /\ UNCHANGED <<aside, calls>>

\* ReadMessage after handleProtocolControl left stc: an error is returned,
\* otherwise the ACK window is checked
TransportAfterControl(r, stc) ==
  TransportFinish(r, stc, IF stc.err # "" THEN stc ELSE handleAckWindow(stc))

\* a ReadMessage that checks the ACK window before it handles the message
TransportReadAckFirst(r, st0) ==
  /\ r.ok
  /\ IF r.err # "" \/ r.msg = <<>>
       THEN TransportFinish(r, st0, st0)
       ELSE LET stc == handleProtocolControl(handleAckWindow(st0),
                                             Returned(r.msg[1]))
            IN  TransportFinish(r, stc, stc)

\* ReadMessage after an iteration of the reader's loop: a message that is
\* ready goes through handleProtocolControl and handleAckWindow
TransportRead(r, st0) ==
  /\ r.ok
  /\ IF r.err # "" \/ r.msg = <<>>
       THEN TransportFinish(r, st0, st0)
       ELSE TransportAfterControl(r, handleProtocolControl(st0, Returned(r.msg[1])))

TransportStep(r) == TransportRead(r, AfterStep(r))

\* Transport.ReadMessage: one iteration of the reader's loop on the bytes
\* that have arrived and, when a message is ready, the handlers
TransportReadMessage ==
  /\ rerr = ""
  /\ TransportStep(ReadMessageStep(inWire, reader.chunkStreams, reader.chunkSize))

\* after NewTransport
Init ==
  /\ reader = NewReader
  /\ writer = NewWriter
  /\ conn = newMeteredConn
  /\ transport = NewTransport
  /\ peer = NewPeer
  /\ inWire = <<>>
  /\ outWire = <<>>
  /\ written = <<>>
  /\ received = <<>>
  /\ chunkLog = [c \in {} |-> <<>>]
  /\ calls = <<>>
  /\ rerr = ""
  /\ hs = NoHandshake
  /\ heap = NoHeap

Next ==
  \/ \E msg \in PeerMessages(Len(peer.log) + 1) : PeerStart(msg)
  \/ \E c \in DOMAIN peer.pending : PeerEmit(c)
  \/ TransportReadMessage

Spec == Init /\ [][Next]_vars

\* ------------------------------------------------------------------------
\* What ReadMessage returns
\* ------------------------------------------------------------------------
RECURSIVE SumSizes(_)
SumSizes(chunks) ==
  IF chunks = <<>> THEN 0 ELSE Head(chunks).size + SumSizes(Tail(chunks))

\* every chunk brought min(chunk size, message length - bytes read so far)
ChunkSizesFollow(chunks, L) ==
  \A k \in 1..Len(chunks) :
    /\ SumSizes(SubSeq(chunks, 1, k - 1)) < L
    /\ chunks[k].size =
         Min(chunks[k].chunkSize, L - SumSizes(SubSeq(chunks, 1, k - 1)))

\* C5: every message ReadMessage returns is complete: its payload length is
\* its header's message length and the sum of the payload sizes of its
\* chunks, each chunk bringing min(chunk size, message length - bytes read);
\* a chunk stream whose bytes read are below its message length keeps its
\* bytes, and no message is returned from it.
C5_Complete ==
  /\ \A i \in 1..Len(received) :
       /\ Len(received[i].msg.data) = received[i].msg.Header.MessageLength
       /\ SumSizes(received[i].chunks) = received[i].msg.Header.MessageLength
       /\ ChunkSizesFollow(received[i].chunks,
                           received[i].msg.Header.MessageLength)
  /\ \A c \in DOMAIN reader.chunkStreams :
       reader.chunkStreams[c].BytesRead > 0 =>
         /\ reader.chunkStreams[c].BytesRead
              < reader.chunkStreams[c].MessageHeader.MessageLength
         /\ SumSizes(chunkLog[c]) = reader.chunkStreams[c].BytesRead

\* a 3-byte video message came in two chunks of 2 and 1 bytes, and a command
\* message the remote end started later, sent between them, was returned
\* first
C5_Witness ==
  /\ Len(received) >= 3
  /\ Len(peer.log) >= 3
  /\ peer.log[2].csid = ChunkStreamVideo
  /\ peer.log[3].csid = ChunkStreamCommand
  /\ received[2].csid = ChunkStreamCommand
  /\ received[3].csid = ChunkStreamVideo
  /\ Len(received[3].chunks) = 2
  /\ received[3].chunks[1].size = 2
  /\ received[3].chunks[2].size = 1
  /\ received[3].msg.data = peer.log[2].msg.data

\* ------------------------------------------------------------------------
\* Acknowledgements
\* ------------------------------------------------------------------------
IsAck(w) == w.msg.Header.MessageTypeID = MsgTypeAcknowledgement

IsWindowAckSize(e) == e.msg.Header.MessageTypeID = MsgTypeWindowAckSize

\* the i-th return of ReadMessage changed the window
WindowChanged(i) ==
  /\ IsWindowAckSize(received[i])
  /\ received[i].before.windowAckSize # received[i].rebased.windowAckSize

\* the last return up to the i-th that changed the window
BaseIdx(i) ==
  CHOOSE j \in 1..i :
    WindowChanged(j) /\ \A k \in 1..i : WindowChanged(k) => k <= j

\* the window in force when the i-th call returned, the bytes read by then,
\* and the bytes read when that window was set
WindowAt(i) == U32ToNat(received[i].rebased.windowAckSize)

BytesAt(i) == received[i].bytesRead

BaselineAt(i) == received[BaseIdx(i)].rebased.lastAckSent

\* the Acknowledgements written since that window was set
AcksSince(i) ==
  SelectSeq(SubSeq(written, received[BaseIdx(i)].wto + 1, received[i].wto),
            IsAck)

AckValue(w) == U32ToNat(readUint32BE(w.msg.data, 0))

Increasing(acks) ==
  \A k \in 1..(Len(acks) - 1) : AckValue(acks[k]) < AckValue(acks[k + 1])

\* C6 as stated: after N bytes read with window W > 0 the transport has
\* written floor(N / W) - floor(baseline / W) Acknowledgements, in
\* increasing order.
C6_AckCountFloors ==
  \A i \in 1..Len(received) :
    WindowAt(i) > 0 =>
      /\ Len(AcksSince(i)) =
           (BytesAt(i) \div WindowAt(i)) - (BaselineAt(i) \div WindowAt(i))
      /\ Increasing(AcksSince(i))

\* C6, amended: after N bytes read with window W > 0 and baseline B (the
\* bytes read when the window was set) the transport has written
\* floor((N - B) / W) Acknowledgements, in increasing order, the k-th
\* carrying B + k * W.
C6_AckCount ==
  \A i \in 1..Len(received) :
    WindowAt(i) > 0 =>
      /\ Len(AcksSince(i)) = (BytesAt(i) - BaselineAt(i)) \div WindowAt(i)
      /\ Increasing(AcksSince(i))
      /\ \A k \in 1..Len(AcksSince(i)) :
           AckValue(AcksSince(i)[k]) = BaselineAt(i) + k * WindowAt(i)

\* one ReadMessage crossed several windows and wrote an Acknowledgement for
\* each, and the baseline is not a multiple of the window
C6_Witness ==
  \E i \in 1..Len(received) :
    /\ WindowAt(i) > 0
    /\ BaselineAt(i) % WindowAt(i) # 0
    /\ received[i].wto - received[i].wfrom >= 2
    /\ Len(AcksSince(i)) >= 2

\* the Acknowledgements written after the first n messages
AcksAfter(n) == SelectSeq(SubSeq(written, n + 1, Len(written)), IsAck)

\* C7: when ReadMessage handles a WindowAckSize whose value differs from the
\* window in force, lastAckSent becomes the bytes read so far before the
\* ACK window is checked, that call writes no Acknowledgement, and every
\* later Acknowledgement counts bytes beyond that point; when the value is
\* the window in force, handling it leaves lastAckSent as it was.
C7_Rebaseline ==
  \A i \in 1..Len(received) :
    IsWindowAckSize(received[i]) =>
      /\ received[i].rebased.windowAckSize =
           readUint32BE(received[i].msg.data, 0)
      /\ IF received[i].before.windowAckSize
              # readUint32BE(received[i].msg.data, 0)
           THEN /\ received[i].rebased.lastAckSent = received[i].bytesRead
                /\ received[i].wto = received[i].wfrom
                /\ \A k \in 1..Len(AcksAfter(received[i].wfrom)) :
                     AckValue(AcksAfter(received[i].wfrom)[k])
                       > received[i].bytesRead
           ELSE received[i].rebased.lastAckSent = received[i].before.lastAckSent

\* a WindowAckSize set a window after bytes had been read, Acknowledgements
\* followed, and a second WindowAckSize with the same value arrived while
\* lastAckSent was behind the bytes read
C7_Witness ==
  \E i, j \in 1..Len(received) :
    /\ i < j
    /\ IsWindowAckSize(received[i])
    /\ WindowChanged(i)
    /\ received[i].before.lastAckSent < received[i].bytesRead
    /\ IsWindowAckSize(received[j])
    /\ ~WindowChanged(j)
    /\ received[j].before.lastAckSent < received[j].bytesRead
    /\ received[j].rebased.lastAckSent < received[j].bytesRead

\* ------------------------------------------------------------------------
\* Ping
\* ------------------------------------------------------------------------
\* a UserControl message with event type 6 and 4 bytes of event data
IsPing(e) ==
  /\ e.msg.Header.MessageTypeID = MsgTypeUserControl
  /\ Len(e.msg.data) = 6
  /\ parseUserControl(e.msg.data).eventType = UserControlPingRequest

IsPong(w) ==
  /\ w.msg.Header.MessageTypeID = MsgTypeUserControl
  /\ Len(w.msg.data) >= 2
  /\ parseUserControl(w.msg.data).eventType = UserControlPingResponse

\* the bytes of all written messages, in order
RECURSIVE WireOf(_)
WireOf(log) ==
  IF log = <<>> THEN <<>> ELSE Flatten(Head(log).chunks) \o WireOf(Tail(log))

\* C8: when ReadMessage gets a PingRequest with 4 bytes of event data, the
\* transport writes, and flushes, a UserControl message with event type 7
\* and the same 4 bytes before the call returns, and the ping is returned to
\* the caller: each returned ping has its pong as the first message written
\* in its call, and no pong is written without its ping being returned.
C8_PingPong ==
  /\ \A i \in 1..Len(received) :
       IsPing(received[i]) =>
         /\ received[i].wto > received[i].wfrom
         /\ IsPong(written[received[i].wfrom + 1])
         /\ written[received[i].wfrom + 1].msg.data =
              <<0, 7>> \o SubSeq(received[i].msg.data, 3, 6)
         /\ written[received[i].wfrom + 1].msg.Header.MessageLength = 6
         /\ written[received[i].wfrom + 1].chunks # <<>>
  /\ Len(SelectSeq(written, IsPong)) = Len(SelectSeq(received, IsPing))
  /\ conn.wbuf = <<>>
  /\ outWire = WireOf(written)

\* a ping was returned and its pong is on the wire
C8_Witness ==
  \E i \in 1..Len(received) :
    /\ IsPing(received[i])
    /\ received[i].msg.data = peer.log[i].msg.data
    /\ received[i].wto = received[i].wfrom + 1
    /\ Len(outWire) >= 18
    /\ SubSeq(outWire, Len(outWire) - 5, Len(outWire)) =
         <<0, 7>> \o SubSeq(received[i].msg.data, 3, 6)

\* ------------------------------------------------------------------------
\* Abort
\* ------------------------------------------------------------------------
IsAbort(e) == e.msg.Header.MessageTypeID = MsgTypeAbort

\* the messages returned from chunk stream c, in order
ReceivedOn(c) ==
  LET On(e) == e.csid = c IN SelectSeq(received, On)

\* the messages the remote end started on chunk stream c and did not abort
SentOn(c) ==
  LET On(e) == e.csid = c /\ ~e.aborted IN SelectSeq(peer.log, On)

\* the message returned is the message sent, with its own length
Delivered(sent, got) ==
  /\ SameMessage(sent.msg, got.msg)
  /\ got.msg.Header.MessageLength = Len(sent.msg.data)

\* C9: handling an Abort that names chunk stream X leaves X with no bytes
\* read and no buffer, and the messages returned from a chunk stream are the
\* messages the remote end sent whole on it, each with exactly its own bytes
\* and length: nothing of an aborted partial message is in the fmt-0 message
\* that follows it.
C9_AbortClears ==
  /\ \A i \in 1..Len(received) :
       IsAbort(received[i]) =>
         \A c \in DOMAIN received[i].streamsAfter :
           U32FromNat(c) = readUint32BE(received[i].msg.data, 0) =>
             /\ received[i].streamsAfter[c].BytesRead = 0
             /\ received[i].streamsAfter[c].buffers = <<>>
  /\ \A c \in DOMAIN reader.chunkStreams :
       /\ Len(ReceivedOn(c)) <= Len(SentOn(c))
       /\ \A k \in 1..Len(ReceivedOn(c)) :
            Delivered(SentOn(c)[k], ReceivedOn(c)[k])

\* two bytes of a 3-byte video message were assembled when the Abort for
\* its chunk stream was handled, and the video message sent after it,
\* starting with fmt 0, was returned with its own bytes
C9_Witness ==
  \E i, j \in 1..Len(received) :
    /\ i < j
    /\ IsAbort(received[i])
    /\ ChunkStreamVideo \in DOMAIN received[i].streamsBefore
    /\ received[i].streamsBefore[ChunkStreamVideo].BytesRead = 2
    /\ received[i].streamsAfter[ChunkStreamVideo].BytesRead = 0
    /\ received[j].csid = ChunkStreamVideo
    /\ Len(peer.log) = 4
    /\ peer.log[2].aborted
    /\ received[j].msg.data = peer.log[4].msg.data
    /\ received[j].chunks[1].remaining = Len(peer.log[4].msg.data)

\* ------------------------------------------------------------------------
\* Conn: the calls of the application
\* ------------------------------------------------------------------------
\* calls of the application in one run
MaxCalls == 3

\* what the application hands to Conn.WriteMessage: the protocol control
\* types, well formed, and user control, command and video messages
ConnMessages ==
  {ControlMessage(MsgTypeSetChunkSize, PutUint32BE(<<0, 2>>)),
   ControlMessage(MsgTypeWindowAckSize, PutUint32BE(<<0, 5>>)),
   ControlMessage(MsgTypeSetPeerBW, PutUint32BE(<<0, 9>>) \o <<2>>),
   ControlMessage(MsgTypeAcknowledgement, PutUint32BE(<<0, 5>>)),
   ControlMessage(MsgTypeAbort, PutUint32BE(<<0, ChunkStreamVideo>>)),
   createUserControl(0, PutUint32BE(<<0, 1>>))}
  \cup {NewMessage(NewMessageHeader(<<0, 1>>, t, k), Payload(n)) :
          t \in {U32Zero, <<0, 40>>},
          k \in {MsgTypeAMF0Command, MsgTypeVideo},
          n \in 1..MaxLen}

\* a Conn.WriteMessage that lets Acknowledgement through
DirectlyRejectedLax(msgType) ==
  msgType \in {MsgTypeSetChunkSize, MsgTypeWindowAckSize, MsgTypeSetPeerBW}

\* the message types Conn.WriteMessage refuses to send
DirectlyRejected(msgType) ==
  msgType \in {MsgTypeSetChunkSize, MsgTypeWindowAckSize, MsgTypeSetPeerBW,
               MsgTypeAcknowledgement}

\* what a call sees of the writing side
WriteSide(w, c, out) == [writer |-> w, conn |-> c, outWire |-> out]

\* the record kept of one call
CallEntry(name, msg, err, before, after) ==
  [name |-> name, msg |-> msg, err |-> err, before |-> before, after |-> after]

\* the variables after a call that left the end state st
ConnDone(name, msg, st) ==
  /\ writer' = st.writer
  /\ conn' = st.conn
  /\ outWire' = st.outWire
  /\ written' = st.written
  /\ calls' = Append(calls,
                CallEntry(name, msg, st.err # "",
                          WriteSide(writer, conn, outWire),
                          WriteSide(st.writer, st.conn, st.outWire)))
  /\ UNCHANGED <<aside,
                 reader, transport, peer, inWire, received, chunkLog, rerr>>

Here == EndState(reader, writer, conn, transport, outWire, written, "")

\* Conn.WriteMessage(msg)
ConnWriteMessage(msg) ==
  /\ Len(calls) < MaxCalls
  /\ ConnDone("WriteMessage", msg,
              IF DirectlyRejected(msg.Header.MessageTypeID)
                THEN Failed(Here, "cannot send directly")
                ELSE TransportWriteMessage(Here, msg))

\* the end of SetOutChunkSize: a failed write is returned, after a write
\* that succeeded Writer.SetChunkSize takes the size
SetAfterWrite(st, size) ==
  IF st.err # "" THEN st ELSE [st EXCEPT !.writer.chunkSize = size]

\* a SetOutChunkSize that changes the writer before it sends the message
SetOutChunkSizeEarly(st, size) ==
  IF ~ValidChunkSize(size) THEN Failed(st, "invalid chunk size")
  ELSE TransportWriteMessage([st EXCEPT !.writer.chunkSize = size],
         ControlMessage(MsgTypeSetChunkSize, PutUint32BE(U32FromNat(size))))

\* Transport.SetOutChunkSize(size): the SetChunkSize message is sent, then
\* the writer takes the size
SetOutChunkSize(st, size) ==
  IF ~ValidChunkSize(size) THEN Failed(st, "invalid chunk size")
  ELSE SetAfterWrite(TransportWriteMessage(st,
         ControlMessage(MsgTypeSetChunkSize, PutUint32BE(U32FromNat(size)))),
         size)

\* Conn.SetChunkSize(size)
ConnSetChunkSize(size) ==
  /\ Len(calls) < MaxCalls
  /\ ConnDone("SetChunkSize",
              ControlMessage(MsgTypeSetChunkSize, PutUint32BE(U32FromNat(size))),
              SetOutChunkSize(Here, size))

NextConn ==
  \/ \E msg \in ConnMessages : ConnWriteMessage(msg)
  \/ \E size \in {0, 2} : ConnSetChunkSize(size)

SpecConn == Init /\ [][NextConn]_vars

\* the four types the claim names
ControlTypes ==
  {MsgTypeSetChunkSize, MsgTypeWindowAckSize, MsgTypeSetPeerBW,
   MsgTypeAcknowledgement}

IsWriteCall(c) == c.name = "WriteMessage"

Accepted(c) == ~c.err

\* C10: Conn.WriteMessage with a SetChunkSize, WindowAckSize,
\* SetPeerBandwidth or Acknowledgement message returns an error, writes no
\* byte and leaves the previous headers, the outgoing chunk size and the
\* bytes written as they were; a later call with another message, whatever
\* was refused before it, succeeds and puts its chunks on the wire.
C10_ControlRejected ==
  /\ \A i \in 1..Len(calls) :
       IsWriteCall(calls[i]) =>
         IF calls[i].msg.Header.MessageTypeID \in ControlTypes
           THEN /\ calls[i].err
                /\ calls[i].after = calls[i].before
           ELSE /\ ~calls[i].err
                /\ Len(calls[i].after.outWire) > Len(calls[i].before.outWire)
                /\ calls[i].after.conn.bytesWritten
                     = calls[i].before.conn.bytesWritten
                         + Len(calls[i].after.outWire)
                         - Len(calls[i].before.outWire)
                /\ calls[i].after.conn.wbuf = <<>>
  /\ Len(written) = Len(SelectSeq(calls, Accepted))
  /\ outWire = WireOf(written)

\* a WindowAckSize and an Acknowledgement were refused with nothing written,
\* and the video message handed over next went out
C10_Witness ==
  /\ Len(calls) = 3
  /\ calls[1].msg.Header.MessageTypeID = MsgTypeWindowAckSize
  /\ calls[2].msg.Header.MessageTypeID = MsgTypeAcknowledgement
  /\ calls[1].err
  /\ calls[2].err
  /\ calls[2].after.outWire = <<>>
  /\ calls[2].after.writer = NewWriter
  /\ calls[3].msg.Header.MessageTypeID = MsgTypeVideo
  /\ ~calls[3].err
  /\ Len(written) = 1
  /\ outWire = Flatten(written[1].chunks)
  /\ Len(outWire) = 12 + Len(calls[3].msg.data)

\* ------------------------------------------------------------------------
\* Transport: the writing side on a stream that can be closed
\* ------------------------------------------------------------------------
\* the messages handed to Transport.WriteMessage
OutMessages ==
  {NewMessage(NewMessageHeader(<<0, 1>>, U32Zero, MsgTypeVideo), Payload(n)) :
     n \in 1..MaxLen}
  \cup {NewMessage(NewMessageHeader(<<0, 1>>, U32Zero, MsgTypeAMF0Command),
                   Payload(2))}

\* the sizes handed to Transport.SetOutChunkSize
OutSizes == {0, 1, 2, DefaultChunkSize, MaxChunkSize + 1}

\* Transport.WriteMessage(msg)
OutWriteMessage(msg) ==
  /\ Len(calls) < MaxCalls
  /\ ConnDone("WriteMessage", msg, TransportWriteMessage(Here, msg))

\* Transport.SetOutChunkSize(size)
OutSetOutChunkSize(size) ==
  /\ Len(calls) < MaxCalls
  /\ ConnDone("SetOutChunkSize",
              ControlMessage(MsgTypeSetChunkSize, PutUint32BE(U32FromNat(size))),
              SetOutChunkSize(Here, size))

\* the stream under the transport is closed: it accepts no more bytes
StreamClose ==
  /\ ~conn.closed
  /\ conn' = [conn EXCEPT !.closed = TRUE]
  /\ UNCHANGED <<aside,
                 reader, writer, transport, peer, inWire, outWire, written,
                 received, chunkLog, calls, rerr>>

NextOut ==
  \/ \E msg \in OutMessages : OutWriteMessage(msg)
  \/ \E size \in OutSizes : OutSetOutChunkSize(size)
  \/ StreamClose

SpecOut == Init /\ [][NextOut]_vars

IsSetOut(c) == c.name = "SetOutChunkSize"

\* the size a call of SetOutChunkSize was given
SizeOf(c) == U32ToNat(readUint32BE(c.msg.data, 0))

\* the entry of written that call i appended, when it succeeded
EntryOf(i) == written[Len(SelectSeq(SubSeq(calls, 1, i), Accepted))]

\* C11: Transport.SetOutChunkSize(size) with a valid size writes and flushes
\* the SetChunkSize message cut by the old outgoing chunk size, and sets the
\* writer's chunk size to size only after that write succeeded; when the
\* write fails the writer's chunk size is unchanged.
C11_SetAfterWire ==
  \A i \in 1..Len(calls) :
    (IsSetOut(calls[i]) /\ SizeOf(calls[i]) \in 1..MaxChunkSize) =>
      IF calls[i].err
        THEN /\ calls[i].after.writer.chunkSize = calls[i].before.writer.chunkSize
             /\ calls[i].after.outWire = calls[i].before.outWire
        ELSE /\ calls[i].after.writer.chunkSize = SizeOf(calls[i])
             /\ EntryOf(i).msg.Header.MessageTypeID = MsgTypeSetChunkSize
             /\ EntryOf(i).msg.data = calls[i].msg.data
             /\ EntryOf(i).chunkSize = calls[i].before.writer.chunkSize
             /\ Len(EntryOf(i).chunks)
                  = CeilDiv(4, calls[i].before.writer.chunkSize)
             /\ \A k \in 1..Len(EntryOf(i).chunks) :
                  Len(EntryOf(i).chunks[k].data)
                    <= calls[i].before.writer.chunkSize
             /\ calls[i].after.outWire
                  = calls[i].before.outWire \o Flatten(EntryOf(i).chunks)
             /\ calls[i].after.conn.wbuf = <<>>

\* the chunk size went from 128 to 2 and on to 1: the second SetChunkSize
\* message left in two chunks of 2 bytes; then the stream was closed and a
\* third SetOutChunkSize failed and left the chunk size at 1
C11_Witness ==
  /\ Len(calls) = 3
  /\ \A i \in 1..3 : IsSetOut(calls[i])
  /\ SizeOf(calls[1]) = 2 /\ ~calls[1].err
  /\ SizeOf(calls[2]) = 1 /\ ~calls[2].err
  /\ Len(written) = 2
  /\ Len(written[1].chunks) = 1
  /\ Len(written[2].chunks) = 2
  /\ SizeOf(calls[3]) = 2 /\ calls[3].err
  /\ calls[3].before.writer.chunkSize = 1
  /\ writer.chunkSize = 1
  /\ conn.closed

\* ------------------------------------------------------------------------
\* Handshake on the raw stream
\* ------------------------------------------------------------------------
ErrRead == "handshake read failed"
ErrWrite == "handshake write failed"
ErrUnsupportedVersion == "unsupported RTMP version"

\* the contents a packet of HandshakeSize bytes can have
MaxSeeds == 2

Seeds == 1..MaxSeeds

\* a packet of HandshakeSize bytes
Block(seed) == [i \in 1..HandshakeSize |-> (seed * 16 + i) % 256]

\* the position of a handshake that has returned
Done == 7

\* a return that goes on with the next step
FailOn(h, kind, step) ==
  [h EXCEPT !.err = <<[kind |-> kind, step |-> step]>>, !.pc = @ + 1]

\* return fmt.Errorf(...): the handshake returns the error
Fail(h, kind, step) ==
  [h EXCEPT !.err = <<[kind |-> kind, step |-> step]>>, !.pc = Done]

\* the record of one read or write on the stream
Op(op, step, n, ok) == [op |-> op, step |-> step, n |-> n, ok |-> ok]

\* io.ReadFull(rw, buf) with len(buf) = n at the step named step: the bytes
\* go to the buffer; fewer than n bytes before the end of the stream is an
\* error
ReadInto(h, step, n, buf) ==
  IF Len(h.rd) >= n
    THEN [h EXCEPT ![buf] = SubSeq(h.rd, 1, n),
                   !.rd = Drop(@, n),
                   !.ops = Append(@, Op("read", step, n, TRUE)),
                   !.pc = @ + 1]
    ELSE Fail([h EXCEPT ![buf] = h.rd,
                        !.rd = <<>>,
                        !.ops = Append(@, Op("read", step, Len(h.rd), FALSE))],
              ErrRead, step)

\* a read can return: the bytes are there, or the stream has ended
CanRead(h, n) == Len(h.rd) >= n \/ h.eof

\* rw.Write(p) at the step named step; a stream that fails takes k bytes
WriteFrom(h, step, p, k) ==
  IF h.wbroken
    THEN Fail([h EXCEPT !.wr = @ \o SubSeq(p, 1, Min(k, Len(p) - 1)),
                        !.ops = Append(@, Op("write", step,
                                             Min(k, Len(p) - 1), FALSE))],
              ErrWrite, step)
    ELSE [h EXCEPT !.wr = @ \o p,
                   !.ops = Append(@, Op("write", step, Len(p), TRUE)),
                   !.pc = @ + 1]

\* a version check that accepts later versions
VersionSupportedFrom(b) == b >= RTMPVersion

\* c0[0] != RTMPVersion, s0[0] != RTMPVersion
VersionSupported(b) == b = RTMPVersion

\* the version check after the read of the version byte into buf
CheckVersion(h, buf) ==
  IF h.err # <<>> \/ VersionSupported(h[buf][1]) THEN h
  ELSE Fail(h, ErrUnsupportedVersion, "")

\* an S2 that repeats S1
ServerS2Own(h) == h.s1

\* s2 := c1
ServerS2(h) == h.c1

\* a server that answers only after it has read C2
ServerStepLate(h, s1, k) ==
  CASE h.pc = 1 -> CheckVersion(ReadInto(h, "c0", 1, "c0"), "c0")
    [] h.pc = 2 -> ReadInto(h, "c1", HandshakeSize, "c1")
    [] h.pc = 3 -> ReadInto(h, "c2", HandshakeSize, "s1")
    [] h.pc = 4 -> WriteFrom(h, "s0", h.c0, k)
    [] h.pc = 5 -> WriteFrom([h EXCEPT !.s1 = s1], "s1", s1, k)
    [] h.pc = 6 -> WriteFrom(h, "s2", ServerS2(h), k)

\* the step of ServerHandshake at position h.pc; s1 is what rand.Read gives
ServerStep(h, s1, k) ==
  CASE h.pc = 1 -> CheckVersion(ReadInto(h, "c0", 1, "c0"), "c0")
    [] h.pc = 2 -> ReadInto(h, "c1", HandshakeSize, "c1")
    [] h.pc = 3 -> WriteFrom(h, "s0", h.c0, k)
    [] h.pc = 4 -> WriteFrom([h EXCEPT !.s1 = s1], "s1", s1, k)
    [] h.pc = 5 -> WriteFrom(h, "s2", ServerS2(h), k)
    [] h.pc = 6 -> ReadInto(h, "c2", HandshakeSize, "s1")

\* a client that sends back as C2 what it read last
ClientStepEchoLast(h, c1, k) ==
  CASE h.pc = 1 -> WriteFrom(h, "c0", <<RTMPVersion>>, k)
    [] h.pc = 2 -> WriteFrom([h EXCEPT !.c1 = c1], "c1", c1, k)
    [] h.pc = 3 -> CheckVersion(ReadInto(h, "s0", 1, "s0"), "s0")
    [] h.pc = 4 -> ReadInto(h, "s1", HandshakeSize, "s1")
    [] h.pc = 5 -> ReadInto(h, "s2", HandshakeSize, "c1")
    [] h.pc = 6 -> WriteFrom(h, "c2", h.c1, k)

\* the step of ClientHandshake at position h.pc; c1 is what rand.Read gives
ClientStep(h, c1, k) ==
  CASE h.pc = 1 -> WriteFrom(h, "c0", <<RTMPVersion>>, k)
    [] h.pc = 2 -> WriteFrom([h EXCEPT !.c1 = c1], "c1", c1, k)
    [] h.pc = 3 -> CheckVersion(ReadInto(h, "s0", 1, "s0"), "s0")
    [] h.pc = 4 -> ReadInto(h, "s1", HandshakeSize, "s1")
    [] h.pc = 5 -> ReadInto(h, "s2", HandshakeSize, "c1")
    [] h.pc = 6 -> WriteFrom(h, "c2", h.s1, k)

\* the bytes a failing write can still take
PartialWrites == {0, 1}

Others == <<reader, writer, conn, transport, peer, inWire, outWire, written,
            received, chunkLog, calls, rerr, heap>>

\* ServerHandshake(rw) makes its next read or write
ServerHandshake ==
  /\ hs.role = "server"
  /\ hs.pc < Done
  /\ hs.pc \in {1, 2, 6} =>
       CanRead(hs, IF hs.pc = 1 THEN 1 ELSE HandshakeSize)
  /\ \E seed \in Seeds, k \in PartialWrites :
       hs' = ServerStep(hs, Block(seed), k)
  /\ UNCHANGED Others

\* ClientHandshake(rw) makes its next read or write
ClientHandshake ==
  /\ hs.role = "client"
  /\ hs.pc < Done
  /\ hs.pc \in {3, 4, 5} =>
       CanRead(hs, IF hs.pc = 3 THEN 1 ELSE HandshakeSize)
  /\ \E seed \in Seeds, k \in PartialWrites :
       hs' = ClientStep(hs, Block(seed), k)
  /\ UNCHANGED Others

\* the packets the remote end can send next: a version byte, then two
\* packets of HandshakeSize bytes, whatever they hold
RemotePackets(h) ==
  IF h.sent = 0 THEN {<<RTMPVersion>>, <<RTMPVersion + 1>>}
                ELSE {Block(seed) : seed \in Seeds}

\* the bytes of the next packet arrive; the remote end can also break off in
\* the middle of a packet
RemoteSend ==
  /\ hs.role # "none"
  /\ ~hs.eof
  /\ hs.sent < 3
  /\ \E p \in RemotePackets(hs), whole \in BOOLEAN :
       LET q == IF whole THEN p ELSE SubSeq(p, 1, Len(p) \div 2)
       IN  hs' = [hs EXCEPT !.rd = @ \o q, !.arrived = @ \o q,
                            !.sent = @ + 1, !.eof = ~whole]
  /\ UNCHANGED Others

\* the remote end closes the stream: reads find its end
RemoteClose ==
  /\ hs.role # "none"
  /\ ~hs.eof
  /\ hs' = [hs EXCEPT !.eof = TRUE]
  /\ UNCHANGED Others

\* the stream starts to refuse writes
StreamBreak ==
  /\ hs.role # "none"
  /\ ~hs.wbroken
  /\ hs' = [hs EXCEPT !.wbroken = TRUE]
  /\ UNCHANGED Others

\* a client or a server about to start the handshake on a fresh stream
InitHS ==
  /\ reader = NewReader
  /\ writer = NewWriter
  /\ conn = newMeteredConn
  /\ transport = NewTransport
  /\ peer = NewPeer
  /\ inWire = <<>>
  /\ outWire = <<>>
  /\ written = <<>>
  /\ received = <<>>
  /\ chunkLog = [c \in {} |-> <<>>]
  /\ calls = <<>>
  /\ rerr = ""
  /\ heap = NoHeap
  /\ \E role \in {"client", "server"} : hs = NewHandshake(role)

NextHS ==
  \/ ServerHandshake
  \/ ClientHandshake
  \/ RemoteSend
  \/ RemoteClose
  \/ StreamBreak

SpecHS == InitHS /\ [][NextHS]_vars

\* the reads and writes of a complete server handshake, in order
ServerOps ==
  <<Op("read", "c0", 1, TRUE), Op("read", "c1", HandshakeSize, TRUE),
    Op("write", "s0", 1, TRUE), Op("write", "s1", HandshakeSize, TRUE),
    Op("write", "s2", HandshakeSize, TRUE),
    Op("read", "c2", HandshakeSize, TRUE)>>

IsWrite(o) == o.op = "write"

\* the first n bytes that arrived after the first from bytes
Arrived(from, n) == SubSeq(hs.arrived, from + 1, from + n)

\* C12: ServerHandshake, given C0 = 3 followed by HandshakeSize bytes of C1,
\* writes nothing before it has read C0 and C1, then writes S0 = 3,
\* HandshakeSize bytes of S1 and an S2 byte-equal to the C1 it read, then
\* reads HandshakeSize bytes of C2 and returns nil whatever C2 holds.
C12_ServerHandshake ==
  hs.role = "server" =>
    /\ \A i \in 1..Len(hs.ops) :
         /\ IsWrite(hs.ops[i]) => i >= 3
         /\ hs.ops[i].ok => hs.ops[i] = ServerOps[i]
    /\ Len(hs.wr) > 0 => hs.wr[1] = RTMPVersion
    /\ (Len(hs.ops) >= 5 /\ hs.ops[5].ok) =>
         /\ Len(hs.wr) = 1 + 2 * HandshakeSize
         /\ SubSeq(hs.wr, 2 + HandshakeSize, 1 + 2 * HandshakeSize)
              = Arrived(1, HandshakeSize)
         /\ hs.arrived[1] = RTMPVersion
    /\ (Len(hs.ops) = 6 /\ hs.ops[6].ok) =>
         /\ hs.pc = Done
         /\ hs.err = <<>>
         /\ hs.rd = Drop(hs.arrived, 1 + 2 * HandshakeSize)
    /\ (hs.pc = Done /\ hs.err = <<>>) => hs.ops = ServerOps

\* the server returned nil after a C2 that is neither the S1 it sent nor
\* the C1 it got
C12_Witness ==
  /\ hs.role = "server"
  /\ hs.pc = Done
  /\ hs.err = <<>>
  /\ hs.ops = ServerOps
  /\ Arrived(1, HandshakeSize) = Block(1)
  /\ SubSeq(hs.wr, 2, 1 + HandshakeSize) = Block(1)
  /\ SubSeq(hs.wr, 2 + HandshakeSize, 1 + 2 * HandshakeSize) = Block(1)
  /\ Arrived(1 + HandshakeSize, HandshakeSize) = Block(2)

\* C13: when the server reads a C0 byte different from 3, ServerHandshake
\* returns ErrUnsupportedVersion after consuming exactly 1 byte of the
\* stream and without writing any byte.
C13_UnsupportedVersion ==
  (/\ hs.role = "server"
   /\ Len(hs.ops) >= 1
   /\ hs.ops[1].ok
   /\ hs.arrived[1] # RTMPVersion) =>
    /\ hs.pc = Done
    /\ Len(hs.err) = 1
    /\ hs.err[1].kind = ErrUnsupportedVersion
    /\ hs.ops = <<Op("read", "c0", 1, TRUE)>>
    /\ hs.rd = Drop(hs.arrived, 1)
    /\ hs.wr = <<>>

\* version 4 and a whole C1 arrived; the server returned after the version
\* byte, with C1 unread and the stream still taking writes
C13_Witness ==
  /\ hs.role = "server"
  /\ hs.pc = Done
  /\ hs.arrived = <<RTMPVersion + 1>> \o Block(1)
  /\ hs.rd = Block(1)
  /\ ~hs.wbroken
  /\ ~hs.eof
  /\ hs.err[1].kind = ErrUnsupportedVersion

\* the packets in the order of the exchange on the wire
StepNames == <<"c0", "c1", "s0", "s1", "s2", "c2">>

\* the operation each role makes on the i-th packet of its exchange
OpOf(role, i) ==
  IF (role = "server") = (i \in {1, 2, 6}) THEN "read" ELSE "write"

\* C20: when a read or a write fails at a step of ClientHandshake or
\* ServerHandshake, the handshake returns at once an error that is ErrRead
\* for a read and ErrWrite for a write and names the step, and it makes no
\* further read or write on the stream.
C20_FailFast ==
  hs.role # "none" =>
    /\ \A i \in 1..Len(hs.ops) :
         /\ hs.ops[i].step = StepNames[i]
         /\ hs.ops[i].op = OpOf(hs.role, i)
         /\ ~hs.ops[i].ok =>
              /\ i = Len(hs.ops)
              /\ hs.pc = Done
              /\ hs.err = <<[kind |-> IF hs.ops[i].op = "read"
                                       THEN ErrRead ELSE ErrWrite,
                             step |-> StepNames[i]]>>
    /\ (hs.err # <<>> /\ hs.err[1].kind \in {ErrRead, ErrWrite}) =>
         ~hs.ops[Len(hs.ops)].ok
    /\ hs.err # <<>> => hs.pc = Done

\* the client's read of S2 failed after half a packet; the stream could
\* still take the write of C2, which was not made
C20_Witness ==
  /\ hs.role = "client"
  /\ hs.pc = Done
  /\ Len(hs.ops) = 5
  /\ hs.ops[5] = Op("read", "s2", HandshakeSize \div 2, FALSE)
  /\ hs.err = <<[kind |-> ErrRead, step |-> "s2"]>>
  /\ ~hs.wbroken
  /\ Len(hs.wr) = 1 + HandshakeSize

\* ------------------------------------------------------------------------
\* Buffers and the messages that share them
\* ------------------------------------------------------------------------
\* calls made on the buffers and messages in one run
MaxBufOps == 4

\* buffers made in one run
MaxBufs == 2

\* NewWithFinalizer(data, finalizer): the count starts at 1; finalizer tells
\* that there is one, finalized counts its runs
NewWithFinalizer(data, finalizer) ==
  [data |-> data, refCount |-> 1, finalizer |-> finalizer, finalized |-> 0]

\* Buffer.Retain
Retain(b) == [b EXCEPT !.refCount = @ + 1]

\* Buffer.Release: the finalizer runs when the count it reaches is 0
Release(b) ==
  [b EXCEPT !.refCount = @ - 1,
            !.finalized = IF b.refCount - 1 = 0 /\ b.finalizer
                            THEN @ + 1 ELSE @]

\* NewMessageFromBuffer(header, buffer), buffer being the buffer of index i
NewMessageFromBuffer(header, bufs, i) ==
  [Header |-> [header EXCEPT !.MessageLength = Len(bufs[i].data)],
   buffer |-> i]

\* a Share that copies the payload to a buffer of its own
ShareCopy(h, m, streamID) ==
  [h EXCEPT !.bufs = Append(@, NewWithFinalizer(@[h.msgs[m].buffer].data,
                                                TRUE)),
            !.msgs = Append(@,
              [Header |-> [NewMessageHeader(streamID,
                                            h.msgs[m].Header.Timestamp,
                                            h.msgs[m].Header.MessageTypeID)
                             EXCEPT !.MessageLength =
                                      h.msgs[m].Header.MessageLength],
               buffer |-> Len(h.bufs) + 1])]

\* a Share that takes no reference
ShareBorrow(h, m, streamID) ==
  [h EXCEPT !.msgs = Append(@,
              [Header |-> [NewMessageHeader(streamID,
                                            h.msgs[m].Header.Timestamp,
                                            h.msgs[m].Header.MessageTypeID)
                             EXCEPT !.MessageLength =
                                      h.msgs[m].Header.MessageLength],
               buffer |-> h.msgs[m].buffer])]

\* Message.Share(streamID) on the message of index m: the buffer is
\* retained; the new message has a new header and the same buffer
Share(h, m, streamID) ==
  [h EXCEPT !.bufs[h.msgs[m].buffer] = Retain(@),
            !.msgs = Append(@,
              [Header |-> [NewMessageHeader(streamID,
                                            h.msgs[m].Header.Timestamp,
                                            h.msgs[m].Header.MessageTypeID)
                             EXCEPT !.MessageLength =
                                      h.msgs[m].Header.MessageLength],
               buffer |-> h.msgs[m].buffer])]

\* Message.Retain
MessageRetain(h, m) == [h EXCEPT !.bufs[h.msgs[m].buffer] = Retain(@)]

\* Message.Release
MessageRelease(h, m) == [h EXCEPT !.bufs[h.msgs[m].buffer] = Release(@)]

\* the record of one call: the buffer it worked on, the message it was made
\* on (0 for a call on the buffer itself), and the heap before and after
HeapEntry(op, b, m, arg, before, after) ==
  [op |-> op, buf |-> b, msg |-> m, arg |-> arg,
   bufsBefore |-> before.bufs, msgsBefore |-> before.msgs,
   bufsAfter |-> after.bufs, msgsAfter |-> after.msgs]

\* the heap after a call that left it as after
HeapDone(op, b, m, arg, after) ==
  /\ Len(heap.log) < MaxBufOps
  /\ heap' = [after EXCEPT !.log = Append(@,
                 HeapEntry(op, b, m, arg, heap, after))]
  /\ UNCHANGED <<reader, writer, conn, transport, peer, inWire, outWire,
                 written, received, chunkLog, calls, rerr, hs>>

\* the headers and payloads messages are made with
HeapHeaders ==
  {NewMessageHeader(<<0, 1>>, t, MsgTypeVideo) : t \in {U32Zero, <<0, 40>>}}

\* NewMessageFromBuffer(header, buf.NewFromPool(n)) after the payload was
\* copied to the buffer
HeapNewMessage(header, data) ==
  /\ Len(heap.bufs) < MaxBufs
  /\ HeapDone("New", Len(heap.bufs) + 1, Len(heap.msgs) + 1, 0,
       [heap EXCEPT
          !.bufs = Append(@, NewWithFinalizer(data, TRUE)),
          !.msgs = Append(@,
            NewMessageFromBuffer(header,
              Append(heap.bufs, NewWithFinalizer(data, TRUE)),
              Len(heap.bufs) + 1))])

\* Buffer.Retain() on the buffer of index b
HeapRetain(b) ==
  HeapDone("Retain", b, 0, 0, [heap EXCEPT !.bufs[b] = Retain(@)])

\* Buffer.Release() on the buffer of index b
HeapRelease(b) ==
  HeapDone("Release", b, 0, 0, [heap EXCEPT !.bufs[b] = Release(@)])

\* Message.Share(streamID) on the message of index m
HeapShare(m, streamID) ==
  HeapDone("Share", heap.msgs[m].buffer, m, streamID,
           Share(heap, m, streamID))

\* Message.Retain() on the message of index m
HeapMessageRetain(m) ==
  HeapDone("Retain", heap.msgs[m].buffer, m, 0, MessageRetain(heap, m))

\* Message.Release() on the message of index m
HeapMessageRelease(m) ==
  HeapDone("Release", heap.msgs[m].buffer, m, 0, MessageRelease(heap, m))

NextBuf ==
  \/ \E header \in HeapHeaders, n \in 1..2 : HeapNewMessage(header, Payload(n))
  \/ \E b \in DOMAIN heap.bufs : HeapRetain(b)
  \/ \E b \in DOMAIN heap.bufs : HeapRelease(b)
  \/ \E m \in DOMAIN heap.msgs, sid \in {<<0, 1>>, <<0, 2>>} : HeapShare(m, sid)
  \/ \E m \in DOMAIN heap.msgs : HeapMessageRetain(m)
  \/ \E m \in DOMAIN heap.msgs : HeapMessageRelease(m)

SpecBuf == Init /\ [][NextBuf]_vars

\* the calls on buffer b that take a reference, and those that give one up
Retains(b) ==
  Len(SelectSeq(heap.log,
                LAMBDA e : e.buf = b /\ e.op \in {"Retain", "Share"}))

Releases(b) ==
  Len(SelectSeq(heap.log, LAMBDA e : e.buf = b /\ e.op = "Release"))

\* the finalizer of the buffer of entry e ran in the call of e
Ran(e) ==
  /\ e.op # "New"
  /\ e.bufsAfter[e.buf].finalized > e.bufsBefore[e.buf].finalized

\* C14: for any Buffer (created with reference count 1) and any sequence of
\* Retain and Release calls, the number of retains plus one minus the number
\* of releases never drops below zero, and the finalizer runs exactly once:
\* at the Release that brings the count to zero, never before it and never
\* again afterwards.
C14_RefCount ==
  /\ \A b \in DOMAIN heap.bufs :
       /\ Retains(b) + 1 - Releases(b) >= 0
       /\ heap.bufs[b].finalized <= 1
  /\ \A i \in DOMAIN heap.log :
       Ran(heap.log[i]) <=>
         /\ heap.log[i].op = "Release"
         /\ heap.log[i].bufsAfter[heap.log[i].buf].refCount = 0

IsShare(e) == e.op = "Share"

\* the message a call of Share was made on, and the one it returned
Original(e) == e.msgsBefore[e.msg]

Shared(e) == e.msgsAfter[Len(e.msgsAfter)]

\* C15: Message.Share(streamID) returns a new message whose header has the
\* given message stream id and the timestamp, type id and message length of
\* the original, whose payload is the same buffer, not a copy, and it
\* increments the reference count of that buffer by exactly 1; the original
\* message's header is unchanged.
C15_Share ==
  \A i \in DOMAIN heap.log :
    IsShare(heap.log[i]) =>
      /\ Len(heap.log[i].msgsAfter) = Len(heap.log[i].msgsBefore) + 1
      /\ Shared(heap.log[i]).Header.MessageStreamID = heap.log[i].arg
      /\ Shared(heap.log[i]).Header.Timestamp
           = Original(heap.log[i]).Header.Timestamp
      /\ Shared(heap.log[i]).Header.MessageTypeID
           = Original(heap.log[i]).Header.MessageTypeID
      /\ Shared(heap.log[i]).Header.MessageLength
           = Original(heap.log[i]).Header.MessageLength
      /\ Shared(heap.log[i]).buffer = Original(heap.log[i]).buffer
      /\ Len(heap.log[i].bufsAfter) = Len(heap.log[i].bufsBefore)
      /\ \A b \in DOMAIN heap.log[i].bufsBefore :
           /\ heap.log[i].bufsAfter[b].data = heap.log[i].bufsBefore[b].data
           /\ heap.log[i].bufsAfter[b].refCount
                = heap.log[i].bufsBefore[b].refCount
                    + (IF b = Original(heap.log[i]).buffer THEN 1 ELSE 0)
      /\ SubSeq(heap.log[i].msgsAfter, 1, Len(heap.log[i].msgsBefore))
           = heap.log[i].msgsBefore

\* two messages with a buffer each; the second, of stream 1 and timestamp
\* 40, was shared to stream 2: its buffer is counted twice, the other once
C15_Witness ==
  /\ Len(heap.log) = 3
  /\ IsShare(heap.log[3])
  /\ heap.log[3].msg = 2
  /\ Len(heap.bufs) = 2
  /\ Len(heap.msgs) = 3
  /\ heap.msgs[2].Header.MessageStreamID = <<0, 1>>
  /\ heap.msgs[2].Header.Timestamp = <<0, 40>>
  /\ heap.msgs[3].Header.MessageStreamID = <<0, 2>>
  /\ heap.msgs[3].Header.Timestamp = <<0, 40>>
  /\ heap.msgs[3].buffer = 2
  /\ heap.bufs[2].refCount = 2
  /\ heap.bufs[1].refCount = 1
  /\ heap.bufs[1].data # heap.bufs[2].data

\* ------------------------------------------------------------------------
\* Transport: the caller writes while messages of the remote end are read
\* ------------------------------------------------------------------------
\* messages of the remote end in one run with a caller that writes
MaxDuplexPeer == 2

\* what the remote end sends then: a ping, a window and a video message
DuplexPeerMessages(k) ==
  {ControlMessage(MsgTypeUserControl, <<0, 6>> \o PeerPayload(k, 4)),
   ControlMessage(MsgTypeWindowAckSize, PutUint32BE(<<0, 5>>)),
   NewMessage(NewMessageHeader(<<0, 1>>, U32Zero, MsgTypeVideo),
              PeerPayload(k, 2))}

NextDuplex ==
  \/ \E msg \in OutMessages : OutWriteMessage(msg)
  \/ \E size \in {2} : OutSetOutChunkSize(size)
  \/ \E msg \in DuplexPeerMessages(Len(peer.log) + 1) :
       Len(peer.log) < MaxDuplexPeer /\ PeerStart(msg)
  \/ \E c \in DOMAIN peer.pending : PeerEmit(c)
  \/ TransportReadMessage

SpecDuplex == Init /\ [][NextDuplex]_vars

\* the chunks of a written message are its own: all on its chunk stream,
\* the first with the message's format and the others of format 3, their
\* payloads making up the payload
OwnChunks(e) ==
  /\ PayloadOfChunks(e.chunks) = e.msg.data
  /\ \A k \in 1..Len(e.chunks) :
       /\ e.chunks[k].csid = getChunkStreamID(e.msg.Header.MessageTypeID)
       /\ k > 1 => e.chunks[k].fmt = FmtType3

\* the messages the transport wrote on its own during the ReadMessage that
\* returned r
OwnWrites(r) == SubSeq(written, r.wfrom + 1, r.wto)

RECURSIVE SumOwn(_)
SumOwn(rs) == IF rs = <<>> THEN 0
              ELSE Head(rs).wto - Head(rs).wfrom + SumOwn(Tail(rs))

\* C16: messages passed to WriteMessage on one connection appear on the
\* wire in call order, and all chunks of one message are emitted together
\* before the first chunk of the next message, whatever chunk streams the
\* messages use, the transport's own PingResponse and Acknowledgement
\* messages included.
C16_WireOrder ==
  /\ outWire = WireOf(written)
  /\ \A k \in DOMAIN written : OwnChunks(written[k])
  /\ \A i \in DOMAIN calls :
       Accepted(calls[i]) =>
         \E k \in DOMAIN written :
           /\ written[k].msg = calls[i].msg
           /\ WireOf(SubSeq(written, 1, k - 1)) = calls[i].before.outWire
           /\ WireOf(SubSeq(written, 1, k)) = calls[i].after.outWire
  /\ \A j \in DOMAIN received :
       \A k \in received[j].wfrom + 1 .. received[j].wto :
         IsAck(written[k]) \/ IsPong(written[k])
  /\ rerr = "" =>
       Len(written) = Len(SelectSeq(calls, Accepted)) + SumOwn(received)

\* with chunk size 2, a video message of 3 bytes went out in two chunks,
\* then the pong for a ping that was read, then a command message
C16_Witness ==
  /\ Len(written) = 4
  /\ written[1].msg.Header.MessageTypeID = MsgTypeSetChunkSize
  /\ written[2].msg.Header.MessageTypeID = MsgTypeVideo
  /\ Len(written[2].chunks) = 2
  /\ IsPong(written[3])
  /\ Len(written[3].chunks) = 3
  /\ written[4].msg.Header.MessageTypeID = MsgTypeAMF0Command
  /\ Len(calls) = 3
  /\ Len(received) = 1
  /\ received[1].wfrom = 2
  /\ received[1].wto = 3

\* ------------------------------------------------------------------------
\* Reading chunks of several chunk streams
\* ------------------------------------------------------------------------
IsLast(e) == e.last

\* the messages of the remote end in the order their last chunks went on
\* the wire
Completed == SelectSeq(peer.emitted, IsLast)

\* the chunks that went on the wire before the last chunk of the n-th
\* completed message, that chunk included
RECURSIVE UpToLast(_, _)
UpToLast(em, n) ==
  IF em = <<>> \/ n = 0 THEN <<>>
  ELSE <<Head(em)>> \o UpToLast(Tail(em), IF Head(em).last THEN n - 1 ELSE n)

\* C17: when chunks of messages on different chunk streams arrive
\* interleaved, ReadMessage returns the messages in the order in which their
\* final chunks arrived, and each returned payload is made of the chunk
\* payloads received on its own chunk stream, in arrival order.
C17_CompletionOrder ==
  /\ Len(received) <= Len(Completed)
  /\ \A j \in DOMAIN received :
       /\ received[j].csid = Completed[j].csid
       /\ Delivered(peer.log[Completed[j].k], received[j])
       /\ Len(received[j].chunks)
            = Len(SelectSeq(UpToLast(peer.emitted, j),
                            LAMBDA e : e.k = Completed[j].k))
  /\ (rerr = "" /\ inWire = <<>>) => Len(received) = Len(Completed)

\* a video message of two chunks was started first and completed last:
\* a command message, sent between its chunks, was returned before it
C17_Witness ==
  /\ Len(received) = 3
  /\ Len(peer.log) = 3
  /\ peer.log[1].msg.Header.MessageTypeID = MsgTypeSetChunkSize
  /\ peer.log[2].msg.Header.MessageTypeID = MsgTypeVideo
  /\ Len(peer.log[2].msg.data) = 3
  /\ peer.log[3].msg.Header.MessageTypeID = MsgTypeAMF0Command
  /\ received[2].msg.Header.MessageTypeID = MsgTypeAMF0Command
  /\ received[3].msg.Header.MessageTypeID = MsgTypeVideo
  /\ received[3].msg.data = peer.log[2].msg.data
  /\ Len(received[3].chunks) = 2
  /\ Len(peer.emitted) = 4
  /\ peer.emitted[2].csid = ChunkStreamVideo
  /\ peer.emitted[3].csid = ChunkStreamCommand
  /\ peer.emitted[4].csid = ChunkStreamVideo

\* ------------------------------------------------------------------------
\* Protocol control messages of the wrong length
\* ------------------------------------------------------------------------
\* messages of the remote end in one run with control messages of the
\* wrong length
MaxBadPeer == 3

\* what the remote end sends then: each protocol control message with a
\* payload of the wrong length, and some well-formed messages
BadPeerMessages(k) ==
  {ControlMessage(MsgTypeSetChunkSize, <<0, 0, 2>>),
   ControlMessage(MsgTypeAbort, <<0, 0, 0, 0, ChunkStreamVideo>>),
   ControlMessage(MsgTypeAcknowledgement, <<0, 0, k>>),
   ControlMessage(MsgTypeWindowAckSize, <<0, 5>>),
   ControlMessage(MsgTypeSetPeerBW, PutUint32BE(<<0, 9>>)),
   ControlMessage(MsgTypeUserControl, <<6>>),
   ControlMessage(MsgTypeWindowAckSize, PutUint32BE(<<0, 16>>)),
   NewMessage(NewMessageHeader(<<0, 1>>, U32Zero, MsgTypeVideo),
              PeerPayload(k, 2))}

NextBad ==
  \/ \E msg \in BadPeerMessages(Len(peer.log) + 1) :
       Len(peer.log) < MaxBadPeer /\ PeerStart(msg)
  \/ \E c \in DOMAIN peer.pending : PeerEmit(c)
  \/ TransportReadMessage

SpecBad == Init /\ [][NextBad]_vars

\* the payload length the protocol fixes for a control message is not the
\* length of msg
WrongLength(msg) ==
  \/ /\ msg.Header.MessageTypeID \in
          {MsgTypeSetChunkSize, MsgTypeAbort, MsgTypeAcknowledgement,
           MsgTypeWindowAckSize}
     /\ Len(msg.data) # 4
  \/ msg.Header.MessageTypeID = MsgTypeSetPeerBW /\ Len(msg.data) # 5
  \/ msg.Header.MessageTypeID = MsgTypeUserControl /\ Len(msg.data) < 2

\* everything the remote end put on the wire has been read
AllRead == inWire = <<>> /\ peer.inFlight = 0

\* C18: when a completed inbound protocol control message has the wrong
\* payload length, ReadMessage returns an error to the caller: the message
\* is neither dropped with reading going on nor returned as a normal
\* message, and the incoming chunk size, the window and the last
\* acknowledged count are unchanged.
C18_WrongLengthFatal ==
  /\ \A j \in DOMAIN received : ~WrongLength(received[j].msg)
  /\ \A n \in DOMAIN Completed :
       (WrongLength(peer.log[Completed[n].k].msg) /\ AllRead) =>
         /\ rerr # ""
         /\ Len(received) < n
  /\ (\A k \in DOMAIN peer.log : WrongLength(peer.log[k].msg)) =>
       /\ reader.chunkSize = DefaultChunkSize
       /\ transport.windowAckSize = U32Zero
       /\ transport.lastAckSent = 0

\* ------------------------------------------------------------------------
\* A remote end that starts a chunk stream with a delta header
\* ------------------------------------------------------------------------
\* raw chunks the remote end sends in one run
MaxRawChunks == 3

\* messages the remote end sends with its writer in such a run
MaxRawPeer == 2

\* the chunk streams raw chunks are sent on
RawCSIDs == {ChunkStreamAudio, ChunkStreamVideo}

\* the message type sent on a chunk stream
RawType(c) == IF c = ChunkStreamAudio THEN MsgTypeAudio ELSE MsgTypeVideo

RawPeerMessages(k) ==
  {NewMessage(NewMessageHeader(<<0, 1>>, U32Zero, MsgTypeVideo),
              PeerPayload(k, n)) : n \in 1..2}
  \cup {NewMessage(NewMessageHeader(<<0, 1>>, U32Zero, MsgTypeAudio),
                   PeerPayload(k, 1))}

\* what the remote end remembers as sent last on chunk stream c: the zero
\* header when it has sent nothing there
RawPrev(p, c) ==
  IF c \in DOMAIN p.prevHeaders THEN p.prevHeaders[c] ELSE ZeroHeader

\* the header a chunk of format f says on chunk stream c: fmt 1 carries a
\* delta, a length of one byte and a type, fmt 2 a delta, fmt 3 nothing
RawHeader(p, f, c) ==
  CASE f = FmtType1 ->
         [RawPrev(p, c) EXCEPT
            !.Timestamp = Add32(@, <<0, 1>>),
            !.TimestampDelta = <<0, 1>>,
            !.MessageLength = 1,
            !.MessageTypeID = RawType(c)]
    [] f = FmtType2 ->
         [RawPrev(p, c) EXCEPT
            !.Timestamp = Add32(@, <<0, 1>>),
            !.TimestampDelta = <<0, 1>>]
    [] OTHER ->
         [RawPrev(p, c) EXCEPT
            !.Timestamp = Add32(@, RawPrev(p, c).TimestampDelta)]

\* the bytes of the chunk: basic header, message header of format f, and
\* the payload the header announces
RawChunk(p, f, c) ==
  BasicHeaderWriteTo(f, c)
    \o MessageHeaderWriteTo(RawHeader(p, f, c), f)
    \o PeerPayload(Len(p.emitted) + 1,
                   Min(RawHeader(p, f, c).MessageLength, p.chunkSize))

\* the remote end puts a chunk of format 1, 2 or 3 on chunk stream c,
\* whether or not it has sent anything on c before
PeerRaw(f, c) ==
  /\ rerr = ""
  /\ Len(peer.emitted) < MaxRawChunks
  /\ Pending(c) = <<>>
  /\ peer.inFlight < MaxInFlight
  /\ inWire' = inWire \o RawChunk(peer, f, c)
  /\ peer' = [peer EXCEPT
                !.prevHeaders = MapPut(@, c, RawHeader(peer, f, c)),
                !.inFlight = @ + 1,
                !.emitted = Append(@, [csid |-> c, k |-> 0, last |-> TRUE,
                                       fmt |-> f])]
  /\ UNCHANGED <<aside, reader, writer, conn, transport, outWire, written,
                 received, chunkLog, calls, rerr>>

NextRaw ==
  \/ \E f \in {FmtType1, FmtType2, FmtType3}, c \in RawCSIDs : PeerRaw(f, c)
  \/ \E msg \in RawPeerMessages(Len(peer.log) + 1) :
       Len(peer.log) < MaxRawPeer /\ PeerStart(msg)
  \/ \E c \in DOMAIN peer.pending : PeerEmit(c)
  \/ TransportReadMessage

SpecRaw == Init /\ [][NextRaw]_vars

\* chunks of the remote end that ReadMessage has consumed
ChunksRead == Len(peer.emitted) - peer.inFlight

\* the i-th chunk of the remote end is the first one on its chunk stream
FirstOn(i) ==
  \A j \in 1..(i - 1) : peer.emitted[j].csid # peer.emitted[i].csid

\* C19: if the first chunk ever received on a CSID has format 1, 2 or 3,
\* reading fails with ErrNoPreviousHeader and no message is returned for
\* that chunk.
C19_NoPreviousHeader ==
  \A i \in DOMAIN peer.emitted :
    (/\ FirstOn(i)
     /\ peer.emitted[i].fmt \in {FmtType1, FmtType2, FmtType3}
     /\ i <= ChunksRead) =>
      /\ rerr = "ErrNoPreviousHeader"
      /\ \A j \in DOMAIN received : received[j].csid # peer.emitted[i].csid

\* ------------------------------------------------------------------------
\* Acknowledgements are off until a window is set
\* ------------------------------------------------------------------------
\* the messages written by the step
NewlyWritten == {written'[i] : i \in (Len(written) + 1)..Len(written')}

\* C21: while the ACK window is 0, its value on a new Transport,
\* ReadMessage never writes an Acknowledgement and lastAckSent stays
\* unchanged, however many bytes are read.
C21_AckDisabled ==
  [][(/\ transport.windowAckSize = U32Zero
      /\ transport'.windowAckSize = U32Zero) =>
       /\ transport'.lastAckSent = transport.lastAckSent
       /\ \A w \in NewlyWritten : ~IsAck(w)]_vars

C21_Witness ==
  /\ transport.windowAckSize = U32Zero
  /\ transport.lastAckSent = 0
  /\ Len(received) >= 3
  /\ conn.bytesRead >= 40

\* ------------------------------------------------------------------------
\* SetOutChunkSize with a size out of range
\* ------------------------------------------------------------------------
\* the stream under the transport accepts bytes before call c
StreamOpen(c) == ~c.before.conn.closed /\ ~c.before.conn.werr

\* C22: Transport.SetOutChunkSize(size) with size 0 or size greater than
\* 0xFFFFFF returns an error without writing any byte and leaves the
\* writer's outgoing chunk size unchanged; the transport remains usable
\* afterwards: on an open stream the calls that follow succeed.
C22_OutOfRange ==
  \A i \in 1..Len(calls) :
    /\ (IsSetOut(calls[i]) /\ SizeOf(calls[i]) \notin 1..MaxChunkSize) =>
         /\ calls[i].err
         /\ calls[i].after = calls[i].before
    /\ (/\ StreamOpen(calls[i])
        /\ IsSetOut(calls[i]) => SizeOf(calls[i]) \in 1..MaxChunkSize) =>
         /\ ~calls[i].err
         /\ Len(calls[i].after.outWire) > Len(calls[i].before.outWire)

\* a size of 0 and a size of 0x1000000 were refused, and the video message
\* written next went out whole with the default chunk size
C22_Witness ==
  /\ Len(calls) = 3
  /\ IsSetOut(calls[1]) /\ SizeOf(calls[1]) = 0 /\ calls[1].err
  /\ IsSetOut(calls[2]) /\ SizeOf(calls[2]) = MaxChunkSize + 1 /\ calls[2].err
  /\ IsWriteCall(calls[3]) /\ ~calls[3].err
  /\ calls[3].before.writer = NewWriter
  /\ Len(written) = 1
  /\ outWire = Flatten(written[1].chunks)
  /\ Len(outWire) = 12 + Len(calls[3].msg.data)

\* ------------------------------------------------------------------------
\* A remote end that changes its chunk size in the middle of messages
\* ------------------------------------------------------------------------
\* messages the remote end sends in one run
MaxSizePeer == 3

\* the values the remote end puts in a SetChunkSize message: valid ones,
\* one with the top bit set, 0, 0x80000000 and 0x01000002
SizeValues ==
  {<<0, 2>>, <<0, 3>>, <<32768, 1>>, <<0, 0>>, <<32768, 0>>, <<256, 2>>}

SizePeerMessages(k) ==
  {NewMessage(NewMessageHeader(<<0, 1>>, U32Zero, MsgTypeVideo),
              PeerPayload(k, 5)),
   NewMessage(NewMessageHeader(<<0, 1>>, U32Zero, MsgTypeAMF0Command),
              PeerPayload(k, 4))}

\* the first chunk of the message pending on chunk stream c is on the wire
Started(p, c) ==
  \E i \in DOMAIN p.emitted :
    p.emitted[i].csid = c /\ p.emitted[i].k = LastOn(p.log, c)

\* payload bytes of the continuation chunks pending on chunk stream c
RECURSIVE RestLen(_, _, _)
RestLen(chunks, c, header) ==
  IF chunks = <<>> THEN 0
  ELSE Len(Head(chunks)) - Len(BasicHeaderWriteTo(FmtType3, c))
         - Len(ContinuationExt(header)) + RestLen(Tail(chunks), c, header)

\* the rest of the message pending on chunk stream c, cut with a new chunk
\* size: the chunk loop of the writer goes on from the bytes written
Recut(p, c, size) ==
  LET data == p.log[LastOn(p.log, c)].msg.data
      sent == Len(data) - RestLen(p.pending[c], c, p.prevHeaders[c])
      rest == WriteChunks(data, sent, size, FmtType3, c, p.prevHeaders[c])
  IN  [k \in 1..Len(rest) |-> ChunkBytes(rest[k])]

\* the remote end once its chunk size is size: what is pending on the
\* other chunk streams is cut again
Resized(p, size) ==
  [p EXCEPT !.pending =
     [c \in DOMAIN @ |->
        IF c = ChunkStreamProtocol \/ @[c] = <<>> THEN @[c]
        ELSE Recut(p, c, size)]]

\* the remote end sends SetChunkSize(v) while messages are half sent: the
\* message goes out with the old chunk size, the chunks after it have the
\* new one
PeerResize(v) ==
  /\ rerr = ""
  /\ Len(peer.log) < MaxSizePeer
  /\ Pending(ChunkStreamProtocol) = <<>>
  /\ \A c \in DOMAIN peer.pending : Pending(c) # <<>> => Started(peer, c)
  /\ peer' = Resized(
               PeerStartFrom(peer,
                 ControlMessage(MsgTypeSetChunkSize, PutUint32BE(v))),
               IF ValidChunkSize(MaskedChunkSize(PutUint32BE(v)))
                 THEN MaskedChunkSize(PutUint32BE(v)) ELSE peer.chunkSize)
  /\ UNCHANGED <<aside,
                 reader, writer, conn, transport, inWire, outWire, written,
                 received, chunkLog, calls, rerr>>

NextSize ==
  \/ \E v \in SizeValues : PeerResize(v)
  \/ \E msg \in SizePeerMessages(Len(peer.log) + 1) :
       Len(peer.log) < MaxSizePeer /\ PeerStart(msg)
  \/ \E c \in DOMAIN peer.pending : PeerEmit(c)
  \/ TransportReadMessage

SpecSize == Init /\ [][NextSize]_vars

IsSetChunkSize(e) == e.msg.Header.MessageTypeID = MsgTypeSetChunkSize

\* v & 0x7FFFFFFF for the 4 bytes of a SetChunkSize payload
Low31(data) ==
  (data[1] % 128) * 16777216 + data[2] * 65536 + data[3] * 256 + data[4]

InRange(size) == size \in 1..16777215

\* the incoming chunk size once n messages are returned: the value of the
\* last SetChunkSize among them, the default when there is none
RECURSIVE InForce(_)
InForce(n) ==
  IF n = 0 THEN DefaultChunkSize
  ELSE IF IsSetChunkSize(received[n]) THEN Low31(received[n].msg.data)
  ELSE InForce(n - 1)

\* every chunk of the log was sized with the chunk size in force when it
\* was read
SizedInForce(chunks) ==
  \A k \in DOMAIN chunks :
    chunks[k].size = Min(InForce(chunks[k].at), chunks[k].remaining)

\* C23: on an inbound SetChunkSize with 4-byte payload v the incoming chunk
\* size becomes v & 0x7FFFFFFF when that value lies in 1..0xFFFFFF, and
\* every chunk read afterwards, on any chunk stream and including the
\* remaining chunks of messages partially assembled, is sized with the new
\* value; when the masked value is 0 or greater than 0xFFFFFF, ReadMessage
\* returns an error and the incoming chunk size is unchanged.
C23_InChunkSize ==
  /\ reader.chunkSize = InForce(Len(received))
  /\ \A j \in DOMAIN received :
       /\ SizedInForce(received[j].chunks)
       /\ IsSetChunkSize(received[j]) => InRange(Low31(received[j].msg.data))
  /\ \A c \in DOMAIN chunkLog : SizedInForce(chunkLog[c])
  /\ \A n \in DOMAIN Completed :
       (IsSetChunkSize(peer.log[Completed[n].k]) /\ AllRead) =>
         IF InRange(Low31(peer.log[Completed[n].k].msg.data))
           THEN /\ Len(received) >= n
                /\ received[n].msg.data = peer.log[Completed[n].k].msg.data
           ELSE rerr # "" /\ Len(received) < n

\* a video message of 5 bytes had its first 2 bytes read with chunk size 2
\* when a SetChunkSize of 3 arrived, and its last 3 bytes came in one chunk
C23_Witness ==
  \E j \in DOMAIN received :
    /\ received[j].csid = ChunkStreamVideo
    /\ Len(received[j].chunks) = 2
    /\ received[j].chunks[1].size = 2
    /\ received[j].chunks[2].size = 3
    /\ received[j].chunks[2].at = received[j].chunks[1].at + 1
    /\ received[j].msg.data = peer.log[Completed[j].k].msg.data

\* a SetChunkSize of 0x80000000 was read: ReadMessage failed and the chunk
\* size stayed at 2
C23_Refused ==
  /\ rerr # ""
  /\ reader.chunkSize = 2
  /\ Len(received) = 1
  /\ Len(peer.log) = 2
  /\ peer.log[2].msg.data = <<128, 0, 0, 0>>

\* ------------------------------------------------------------------------
\* Goroutines that retain and release one buffer
\* ------------------------------------------------------------------------
\* goroutines that work on the buffer
MaxGoroutines == 3

\* calls one goroutine makes
MaxGoCalls == 2

\* what a goroutine may do: up to MaxGoCalls calls of Retain and Release
GoPrograms ==
  UNION {[1..n -> {"Retain", "Release"}] : n \in 0..MaxGoCalls}

RECURSIVE CountOp(_, _)
CountOp(todo, op) ==
  IF todo = <<>> THEN 0
  ELSE (IF Head(todo) = op THEN 1 ELSE 0) + CountOp(Tail(todo), op)

RECURSIVE TotalOp(_, _)
TotalOp(gos, op) ==
  IF gos = <<>> THEN 0
  ELSE CountOp(Head(gos).todo, op) + TotalOp(Tail(gos), op)

\* a goroutine before its first call: count is what the atomic add of its
\* Release returned, checking tells that it has yet to compare it with 0
NewGoroutine(todo) == [todo |-> todo, count |-> 0, checking |-> FALSE]

\* the goroutines of a run: together they release once more than they retain
GoRuns ==
  {gos \in [1..MaxGoroutines -> {NewGoroutine(p) : p \in GoPrograms}] :
     TotalOp(gos, "Release") = TotalOp(gos, "Retain") + 1}

\* one buffer from the pool, count 1, and the goroutines that share it
InitRef ==
  /\ reader = NewReader
  /\ writer = NewWriter
  /\ conn = newMeteredConn
  /\ transport = NewTransport
  /\ peer = NewPeer
  /\ inWire = <<>>
  /\ outWire = <<>>
  /\ written = <<>>
  /\ received = <<>>
  /\ chunkLog = EmptyMap
  /\ calls = <<>>
  /\ rerr = ""
  /\ hs = NoHandshake
  /\ \E gos \in GoRuns :
       heap = [bufs |-> <<NewWithFinalizer(Payload(1), TRUE)>>,
               msgs |-> <<>>, log |-> <<>>, gos |-> gos]

GoDone(h) ==
  /\ heap' = h
  /\ UNCHANGED <<reader, writer, conn, transport, peer, inWire, outWire,
                 written, received, chunkLog, calls, rerr, hs>>

\* goroutine g calls Retain: refCount.Add(1)
GoRetain(g) ==
  /\ ~heap.gos[g].checking
  /\ heap.gos[g].todo # <<>>
  /\ Head(heap.gos[g].todo) = "Retain"
  /\ GoDone([heap EXCEPT !.bufs[1].refCount = @ + 1,
                         !.gos[g].todo = Tail(@)])

\* goroutine g calls Release: count := refCount.Add(-1)
GoRelease(g) ==
  /\ ~heap.gos[g].checking
  /\ heap.gos[g].todo # <<>>
  /\ Head(heap.gos[g].todo) = "Release"
  /\ GoDone([heap EXCEPT !.bufs[1].refCount = @ - 1,
                         !.gos[g].count = heap.bufs[1].refCount - 1,
                         !.gos[g].checking = TRUE,
                         !.gos[g].todo = Tail(@)])

\* the rest of Release in goroutine g: the finalizer runs when the count the
\* add returned is 0
GoFinalize(g) ==
  /\ heap.gos[g].checking
  /\ GoDone([heap EXCEPT
               !.bufs[1].finalized =
                 IF heap.gos[g].count = 0 /\ heap.bufs[1].finalizer
                   THEN @ + 1 ELSE @,
               !.gos[g].checking = FALSE])

NextRef ==
  \/ \E g \in 1..MaxGoroutines : GoRetain(g)
  \/ \E g \in 1..MaxGoroutines : GoRelease(g)
  \/ \E g \in 1..MaxGoroutines : GoFinalize(g)

SpecRef == InitRef /\ [][NextRef]_vars

\* every goroutine has made its calls
AllReturned ==
  \A g \in 1..MaxGoroutines :
    heap.gos[g].todo = <<>> /\ ~heap.gos[g].checking

\* C24: when several goroutines call Retain and Release concurrently on one
\* Buffer, the releases being one more than the retains, every interleaving
\* ends with the reference count at 0 and the finalizer run exactly once.
C24_ConcurrentRefCount ==
  /\ heap.bufs[1].finalized <= 1
  /\ AllReturned =>
       /\ heap.bufs[1].refCount = 0
       /\ heap.bufs[1].finalized = 1

\* ------------------------------------------------------------------------
\* The buffer pool when a read fails
\* ------------------------------------------------------------------------
\* messages the remote end sends before its stream ends
MaxPoolPeer == 3

\* what the remote end sends: a chunk size of 2, a chunk size of 0, a
\* window of 5 bytes, a ping with event data too short, and video messages
PoolPeerMessages(k) ==
  {ControlMessage(MsgTypeSetChunkSize, PutUint32BE(<<0, 2>>)),
   ControlMessage(MsgTypeSetChunkSize, PutUint32BE(<<0, 0>>)),
   ControlMessage(MsgTypeWindowAckSize, PutUint32BE(<<0, 5>>)),
   ControlMessage(MsgTypeUserControl, <<0, 6>> \o PeerPayload(k, 2)),
   NewMessage(NewMessageHeader(<<0, 1>>, U32Zero, MsgTypeVideo),
              PeerPayload(k, 3))}

\* the pool: buffers taken with GetBuffer and given back with PutBuffer;
\* failed is the chunk stream of the read that failed, eof tells that the
\* inbound stream has ended
NewPool == [got |-> 0, put |-> 0, failed |-> 0, eof |-> FALSE]

InitPool ==
  /\ reader = NewReader
  /\ writer = NewWriter
  /\ conn = newMeteredConn
  /\ transport = NewTransport
  /\ peer = NewPeer
  /\ inWire = <<>>
  /\ outWire = <<>>
  /\ written = <<>>
  /\ received = <<>>
  /\ chunkLog = EmptyMap
  /\ calls = <<>>
  /\ rerr = ""
  /\ hs = NoHandshake
  /\ heap = NewPool

\* the inbound stream ends after the first n bytes of the next chunk on
\* chunk stream c
PeerBreak(c, n) ==
  /\ rerr = ""
  /\ ~heap.eof
  /\ Pending(c) # <<>>
  /\ c = ChunkStreamProtocol \/ Pending(ChunkStreamProtocol) = <<>>
  /\ n < Len(Head(peer.pending[c]))
  /\ inWire' = inWire \o SubSeq(Head(peer.pending[c]), 1, n)
  /\ heap' = [heap EXCEPT !.eof = TRUE]
  /\ UNCHANGED <<reader, writer, conn, transport, peer, outWire, written,
                 received, chunkLog, calls, rerr, hs>>

\* the pool after an iteration r of ReadMessage that left st1: ReadChunkData
\* took a buffer for the chunk; Message.Release gives the buffers of the
\* assembled message back when a handler of the transport failed
PoolAfter(pool, r, st1) ==
  [pool EXCEPT
     !.got = IF r.err = "" THEN @ + 1 ELSE @,
     !.put = IF r.err = "" /\ r.msg # <<>> /\ st1.err # ""
               THEN @ + Len(r.msg[1].buffers) ELSE @,
     !.failed = IF st1.err # "" THEN r.csid ELSE @]

PoolControl(r, st0) ==
  IF r.err # "" \/ r.msg = <<>> THEN st0
  ELSE handleProtocolControl(st0, Returned(r.msg[1]))

PoolAck(r, stc) ==
  IF r.err # "" \/ r.msg = <<>> \/ stc.err # "" THEN stc
  ELSE handleAckWindow(stc)

PoolFinish(r, stc, st1) ==
  /\ TransportEffects(r, stc, st1)
  /\ heap' = PoolAfter(heap, r, st1)
  /\ UNCHANGED <<hs, calls>>

PoolRead(r, stc) == PoolFinish(r, stc, PoolAck(r, stc))

\* Transport.ReadMessage with the pool: one iteration of the reader's loop
\* and, when a message is ready, the handlers
PoolReadMessage ==
  /\ rerr = ""
  /\ ReadMessageStep(inWire, reader.chunkStreams, reader.chunkSize).ok
  /\ PoolRead(ReadMessageStep(inWire, reader.chunkStreams, reader.chunkSize),
              PoolControl(
                ReadMessageStep(inWire, reader.chunkStreams, reader.chunkSize),
                AfterStep(ReadMessageStep(inWire, reader.chunkStreams,
                                          reader.chunkSize))))

\* readChunk when the stream ends in the message header or in the chunk
\* data: the chunk stream exists, and has taken the header of a new message
\* when the header was read whole
EndedInChunk(s, chunkStreams, bh, cs, hr) ==
  MapPut(chunkStreams, bh.chunkStreamID,
         IF hr.ok /\ cs.BytesRead = 0 THEN [cs EXCEPT !.MessageHeader = hr.mh]
                                      ELSE cs)

\* readChunk when the stream ends before the chunk is whole: stage is the
\* read that failed, data tells that it was ReadChunkData
Ended(s, chunkStreams) ==
  LET bh == readBasicHeader(s, 0)
      cs == getChunkStream(chunkStreams, bh.chunkStreamID)
      hr == readMessageHeader(s, bh.n, bh.fmt, PtrTo(cs.PrevHeader))
  IN  IF ~bh.ok
        THEN [stage |-> "chunk basic header", data |-> FALSE, csid |-> 0,
              chunkStreams |-> chunkStreams]
      ELSE [stage |-> IF hr.ok THEN "chunk data" ELSE "chunk message header",
            data |-> hr.ok, csid |-> bh.chunkStreamID,
            chunkStreams |-> EndedInChunk(s, chunkStreams, bh, cs, hr)]

\* Transport.ReadMessage when the stream has ended and the next chunk is not
\* whole: the read fails; ReadChunkData gives back the buffer it took
PoolReadEnded ==
  /\ rerr = ""
  /\ heap.eof
  /\ ~ReadMessageStep(inWire, reader.chunkStreams, reader.chunkSize).ok
  /\ rerr' = Ended(inWire, reader.chunkStreams).stage
  /\ reader' = [reader EXCEPT
                  !.chunkStreams = Ended(inWire, reader.chunkStreams).chunkStreams]
  /\ conn' = [conn EXCEPT !.bytesRead = @ + Len(inWire)]
  /\ inWire' = <<>>
  /\ heap' = [heap EXCEPT
                !.got = IF Ended(inWire, reader.chunkStreams).data
                          THEN @ + 1 ELSE @,
                !.put = IF Ended(inWire, reader.chunkStreams).data
                          THEN @ + 1 ELSE @,
                !.failed = Ended(inWire, reader.chunkStreams).csid]
  /\ UNCHANGED <<writer, transport, peer, outWire, written, received,
                 chunkLog, calls, hs>>

NextPool ==
  \/ \E msg \in PoolPeerMessages(Len(peer.log) + 1) :
       ~heap.eof /\ Len(peer.log) < MaxPoolPeer /\ PeerStart(msg)
  \/ \E c \in DOMAIN peer.pending : ~heap.eof /\ PeerEmit(c)
  \/ \E c \in DOMAIN peer.pending, n \in 0..12 : PeerBreak(c, n)
  \/ PoolReadMessage
  \/ PoolReadEnded
  \/ StreamClose

SpecPool == InitPool /\ [][NextPool]_vars

\* buffers the chunk streams in cset hold
RECURSIVE HeldBy(_, _)
HeldBy(chunkStreams, cset) ==
  IF cset = {} THEN 0
  ELSE LET c == CHOOSE x \in cset : TRUE
       IN  Len(chunkStreams[c].buffers) + HeldBy(chunkStreams, cset \ {c})

\* buffers of the messages handed to the caller, one for each chunk
RECURSIVE HandedOver(_)
HandedOver(rs) ==
  IF rs = <<>> THEN 0 ELSE Len(Head(rs).chunks) + HandedOver(Tail(rs))

\* C25: whenever a read fails, every buffer acquired during that read has
\* been released before the error is returned: the assembled message is
\* released exactly once when protocol control handling or the sending of
\* an Acknowledgement fails, and a failed read of chunk data returns to the
\* pool the chunk buffer and the buffers accumulated for that partial
\* message.
C25_ReleasedOnError ==
  rerr # "" =>
    /\ heap.got - heap.put
         = HandedOver(received)
             + HeldBy(reader.chunkStreams,
                      DOMAIN reader.chunkStreams \ {heap.failed})
    /\ heap.failed \in DOMAIN reader.chunkStreams =>
         reader.chunkStreams[heap.failed].buffers = <<>>

\* the part of it on the handlers of the transport: once a handler has
\* failed, the buffers of the message are back in the pool and its chunk
\* stream holds none
C25_HandlerFailure ==
  (rerr # "" /\ rerr \notin {"chunk basic header", "chunk message header",
                             "chunk data"}) =>
    /\ heap.got - heap.put
         = HandedOver(received)
             + HeldBy(reader.chunkStreams, DOMAIN reader.chunkStreams)
    /\ reader.chunkStreams[heap.failed].buffers = <<>>
    /\ heap.put > 0

\* ------------------------------------------------------------------------
\* WriteMessage flushes
\* ------------------------------------------------------------------------
\* C26: after Transport.WriteMessage returns nil, every byte of that
\* message, chunk headers and payload, has been handed to the underlying
\* stream and nothing of it remains in the write buffer.
C26_Flushed ==
  \A i \in 1..Len(calls) :
    (IsWriteCall(calls[i]) /\ ~calls[i].err) =>
      /\ EntryOf(i).msg = calls[i].msg
      /\ PayloadOfChunks(EntryOf(i).chunks) = calls[i].msg.data
      /\ calls[i].after.outWire
           = calls[i].before.outWire \o Flatten(EntryOf(i).chunks)
      /\ calls[i].after.conn.wbuf = <<>>

\* a video message of 3 bytes written with chunk size 2 is on the stream in
\* two chunks: 12 + 2 bytes and 1 + 1 bytes
C26_Witness ==
  \E i \in 1..Len(calls) :
    /\ IsWriteCall(calls[i])
    /\ ~calls[i].err
    /\ Len(calls[i].msg.data) = 3
    /\ Len(EntryOf(i).chunks) = 2
    /\ Len(calls[i].after.outWire) = Len(calls[i].before.outWire) + 16
    /\ calls[i].after.conn.wbuf = <<>>

\* ------------------------------------------------------------------------
\* Two session goroutines that write on one subscriber's connection
\* ------------------------------------------------------------------------
\* messages one goroutine writes on the connection
MaxFanCalls == 2

\* the goroutines: 1 is the subscriber's own session (Session.Run: play
\* responses, the pong of ReadMessage), 2 the publisher's session
\* (broadcastToSubscribers)
FanGoroutines == {1, 2}

\* what each goroutine hands to WriteMessage
FanMessages(g) ==
  IF g = 1
    THEN {createUserControl(UserControlPingResponse, <<0, 0, 0, 1>>),
          NewMessage(NewMessageHeader(<<0, 1>>, U32Zero, MsgTypeAMF0Command),
                     Payload(2))}
    ELSE {NewMessage(NewMessageHeader(<<0, 1>>, t, MsgTypeVideo), Payload(2)) :
            t \in {U32Zero, <<0, 40>>}}

\* a goroutine outside WriteMessage: todo are the messages it has yet to
\* write, done counts those it wrote; inside, pc is the statement it is at,
\* header the headerToWrite it computed and chunks what it has yet to write
NewWriterGoroutine(todo) ==
  [todo |-> todo, done |-> 0, pc |-> "idle", csid |-> 0,
   header |-> ZeroHeader, chunks |-> <<>>]

FanRuns ==
  {gos \in [FanGoroutines -> UNION {{NewWriterGoroutine(p) :
                                       p \in UNION {[1..n -> FanMessages(g)] :
                                                      n \in 1..MaxFanCalls}} :
                                    g \in FanGoroutines}] :
     \A g \in FanGoroutines :
       \A i \in 1..Len(gos[g].todo) : gos[g].todo[i] \in FanMessages(g)}

\* the connection of a subscriber after NewTransport, and the goroutines
\* that hold it; log lists the writes made on the buffered writer, crashed
\* tells that the runtime stopped the process
InitFan ==
  /\ reader = NewReader
  /\ writer = NewWriter
  /\ conn = newMeteredConn
  /\ transport = NewTransport
  /\ peer = NewPeer
  /\ inWire = <<>>
  /\ outWire = <<>>
  /\ written = <<>>
  /\ received = <<>>
  /\ chunkLog = EmptyMap
  /\ calls = <<>>
  /\ rerr = ""
  /\ hs = NoHandshake
  /\ \E gos \in FanRuns :
       heap = [bufs |-> <<>>, msgs |-> <<>>, log |-> <<>>, gos |-> gos,
               crashed |-> FALSE]

\* the goroutines other than g that are at the statement that stores into
\* the prevHeaders map
Storing(g) == {o \in FanGoroutines \ {g} : heap.gos[o].pc = "record"}

FanDone(h, w, c, out) ==
  /\ heap' = h
  /\ writer' = w
  /\ conn' = c
  /\ outWire' = out
  /\ UNCHANGED <<reader, transport, peer, inWire, written, received,
                 chunkLog, calls, rerr, hs>>

\* the runtime finds the map being written by another goroutine and stops
\* the process with a fatal error
FanCrash == FanDone([heap EXCEPT !.crashed = TRUE], writer, conn, outWire)

\* w.conn.Write(bytes) by goroutine g: the bytes go to the buffered writer
FanWrite(g, bytes, gor) ==
  FanDone([heap EXCEPT !.gos[g] = gor,
                       !.log = Append(@, [g |-> g, k |-> heap.gos[g].done + 1])],
          writer,
          [conn EXCEPT !.wbuf = @ \o bytes,
                       !.bytesWritten = @ + Len(bytes)],
          outWire)

\* goroutine g enters Writer.WriteMessage: it looks up prevHeaders and
\* prepares the header and the chunks
FanEnter(g) ==
  LET me  == heap.gos[g]
      msg == Head(me.todo)
      w   == WriteMessage(writer.prevHeaders, writer.chunkSize, msg)
  IN  /\ ~heap.crashed
      /\ me.pc = "idle"
      /\ me.todo # <<>>
      /\ \/ FanDone([heap EXCEPT !.gos[g] =
                       [me EXCEPT !.pc = "header", !.csid = w.csid,
                                  !.header = w.header, !.chunks = w.chunks]],
                    writer, conn, outWire)
         \/ Storing(g) # {} /\ FanCrash

\* goroutine g writes the basic header and the message header of its next
\* chunk
FanHeader(g) ==
  LET me == heap.gos[g]
      c  == Head(me.chunks)
  IN  /\ ~heap.crashed
      /\ me.pc = "header"
      /\ FanWrite(g, c.basic \o c.header \o c.ext, [me EXCEPT !.pc = "data"])

\* goroutine g writes the data of the chunk
FanData(g) ==
  LET me == heap.gos[g]
      c  == Head(me.chunks)
  IN  /\ ~heap.crashed
      /\ me.pc = "data"
      /\ FanWrite(g, c.data,
                  [me EXCEPT !.chunks = Tail(@),
                             !.pc = IF Tail(me.chunks) = <<>> THEN "record"
                                    ELSE "header"])

\* goroutine g stores w.prevHeaders[csid] = headerToWrite
FanRecord(g) ==
  LET me == heap.gos[g]
  IN  /\ ~heap.crashed
      /\ me.pc = "record"
      /\ \/ FanDone([heap EXCEPT !.gos[g].pc = "flush"],
                    [writer EXCEPT !.prevHeaders =
                       MapPut(@, me.csid, me.header)],
                    conn, outWire)
         \/ Storing(g) # {} /\ FanCrash

\* goroutine g flushes the buffered writer and returns from
\* Transport.WriteMessage
FanFlush(g) ==
  LET me == heap.gos[g]
  IN  /\ ~heap.crashed
      /\ me.pc = "flush"
      /\ FanDone([heap EXCEPT !.gos[g] =
                    [me EXCEPT !.pc = "idle", !.todo = Tail(@),
                               !.done = @ + 1]],
                 writer, [conn EXCEPT !.wbuf = <<>>], outWire \o conn.wbuf)

NextFan ==
  \/ \E g \in FanGoroutines : FanEnter(g)
  \/ \E g \in FanGoroutines : FanHeader(g)
  \/ \E g \in FanGoroutines : FanData(g)
  \/ \E g \in FanGoroutines : FanRecord(g)
  \/ \E g \in FanGoroutines : FanFlush(g)

SpecFan == InitFan /\ [][NextFan]_vars

\* the goroutines that are executing WriteMessage
InsideWrite == {g \in FanGoroutines : heap.gos[g].pc # "idle"}

\* the writes of one message are next to each other
Contiguous(log) ==
  \A i, j, l \in 1..Len(log) :
    (i < j /\ j < l /\ log[i] = log[l]) => log[j] = log[i]

\* C27: at most one goroutine at a time executes WriteMessage on the writer
\* of a connection: the bytes of two messages are never interleaved, and the
\* prevHeaders table is never updated concurrently, also when the publisher's
\* session broadcasts to a subscriber whose own session is writing.
C27_SingleWriter ==
  /\ Cardinality(InsideWrite) <= 1
  /\ Contiguous(heap.log)
  /\ ~heap.crashed

\* ------------------------------------------------------------------------
\* Timestamp deltas of fmt 1 and fmt 2
\* ------------------------------------------------------------------------
\* the i-th written message went out as fmt 1 or fmt 2
UsesDelta(i) ==
  written[i].fmt \in {FmtType1, FmtType2} /\ written[i].msg.data # <<>>

\* ts - prev.ts mod 2^32 for the i-th written message
DeltaOf(i) ==
  Sub32(written[i].msg.Header.Timestamp,
        written[PrevOn(i)].msg.Header.Timestamp)

\* the bytes of a fmt-1 or fmt-2 header before the extended timestamp
FixedLen(fmtType) == IF fmtType = FmtType1 THEN 7 ELSE 3

\* the header of the first chunk carries delta d: in the 24-bit field when
\* d < 0xFFFFFF, else 0xFFFFFF there and d in the 4 bytes after the header
CarriesDelta(e, d) ==
  LET h == e.chunks[1].header
  IN  IF GE32(d, ExtendedTimestampThreshold)
        THEN /\ Len(h) = FixedLen(e.fmt) + 4
             /\ readUint24BE(h, 0) = ExtendedTimestampThreshold
             /\ readUint32BE(h, FixedLen(e.fmt)) = d
        ELSE /\ Len(h) = FixedLen(e.fmt)
             /\ readUint24BE(h, 0) = U32ToNat(d)

\* C28: a message that follows one with the same stream id on its chunk
\* stream, with another timestamp, goes out as fmt 1 or fmt 2 with
\* delta = (ts - prev.ts) mod 2^32, in the extended-timestamp field when
\* delta >= 0xFFFFFF, and the reader returns it with timestamp ts; also for
\* ts < prev.ts, for deltas above 0xFFFFFF and for timestamps above
\* 0xFFFFFF. Two such messages of one chunk each are both read back.
C28_TimestampDelta ==
  /\ \A i \in 1..Len(written) :
       UsesDelta(i) =>
         /\ written[i].header.TimestampDelta = DeltaOf(i)
         /\ CarriesDelta(written[i], DeltaOf(i))
         /\ Len(received) >= i =>
              received[i].msg.Header.Timestamp =
                written[i].msg.Header.Timestamp
  /\ ( /\ Len(written) = 2
       /\ UsesDelta(2)
       /\ Len(written[1].chunks) = 1
       /\ Len(written[2].chunks) = 1 )
       => /\ rerr = ""
          /\ (inWire = <<>> /\ conn.wbuf = <<>>) => Len(received) = 2

\* 0xFFFFFFFF then 0x01000000 on one chunk stream: both above 0xFFFFFF, the
\* second below the first, the wrapped delta 0x01000001 in the extended
\* field; both were read back
C28_Witness ==
  /\ Len(written) = 2
  /\ Len(received) = 2
  /\ UsesDelta(2)
  /\ written[1].msg.Header.Timestamp = <<65535, 65535>>
  /\ written[2].msg.Header.Timestamp = <<256, 0>>
  /\ DeltaOf(2) = <<256, 1>>
  /\ received[2].msg.Header.Timestamp = <<256, 0>>

\* ------------------------------------------------------------------------
\* A second message with the header of the first
\* ------------------------------------------------------------------------
\* C29: a message with the stream id, length, type and timestamp of the one
\* before it on its chunk stream goes out with a fmt-3 first chunk, and both
\* are read back: the second is returned with the timestamp, type id, stream
\* id and payload that were written.
C29_RepeatedHeader ==
  \A i \in 1..Len(written) :
    (written[i].fmt = FmtType3 /\ written[i].msg.data # <<>>) =>
      /\ written[i].msg.Header = written[PrevOn(i)].msg.Header
      /\ Len(received) >= i =>
           SameMessage(written[i].msg, received[i].msg)

\* ------------------------------------------------------------------------
\* The client's side of the handshake
\* ------------------------------------------------------------------------
\* the writes and reads of a complete client handshake, in order
ClientOps ==
  <<Op("write", "c0", 1, TRUE), Op("write", "c1", HandshakeSize, TRUE),
    Op("read", "s0", 1, TRUE), Op("read", "s1", HandshakeSize, TRUE),
    Op("read", "s2", HandshakeSize, TRUE),
    Op("write", "c2", HandshakeSize, TRUE)>>

\* C30: ClientHandshake writes C0 = 3 and HandshakeSize bytes of C1 before
\* it reads anything, then reads S0, S1 and S2, and last writes a C2
\* byte-equal to the S1 it read; when S0 is not 3 it returns
\* ErrUnsupportedVersion after the read of S0, without reading S1 or S2 and
\* without writing C2.
C30_ClientHandshake ==
  hs.role = "client" =>
    /\ \A i \in 1..Len(hs.ops) :
         /\ ~IsWrite(hs.ops[i]) => i >= 3
         /\ hs.ops[i].ok => hs.ops[i] = ClientOps[i]
    /\ Len(hs.wr) > 0 => hs.wr[1] = RTMPVersion
    /\ (Len(hs.ops) >= 3 /\ hs.ops[3].ok) =>
         /\ Len(hs.wr) >= 1 + HandshakeSize
         /\ hs.wr[1] = RTMPVersion
         /\ hs.arrived[1] # RTMPVersion =>
              /\ hs.pc = Done
              /\ Len(hs.err) = 1
              /\ hs.err[1].kind = ErrUnsupportedVersion
              /\ hs.ops = SubSeq(ClientOps, 1, 3)
              /\ hs.rd = Drop(hs.arrived, 1)
              /\ Len(hs.wr) = 1 + HandshakeSize
    /\ (Len(hs.ops) = 6 /\ hs.ops[6].ok) =>
         /\ hs.arrived[1] = RTMPVersion
         /\ Len(hs.wr) = 1 + 2 * HandshakeSize
         /\ SubSeq(hs.wr, 2 + HandshakeSize, 1 + 2 * HandshakeSize)
              = Arrived(1, HandshakeSize)
         /\ hs.pc = Done
         /\ hs.err = <<>>
    /\ (hs.pc = Done /\ hs.err = <<>>) => hs.ops = ClientOps

\* the client returned nil: it sent Block(1) as C1, got Block(2) as S1 and
\* Block(1) as S2, and its C2 is Block(2)
C30_Witness ==
  /\ hs.role = "client"
  /\ hs.pc = Done
  /\ hs.err = <<>>
  /\ hs.ops = ClientOps
  /\ SubSeq(hs.wr, 2, 1 + HandshakeSize) = Block(1)
  /\ Arrived(1, HandshakeSize) = Block(2)
  /\ Arrived(1 + HandshakeSize, HandshakeSize) = Block(1)
  /\ SubSeq(hs.wr, 2 + HandshakeSize, 1 + 2 * HandshakeSize) = Block(2)

\* version 4 and a whole S1 arrived; the client returned after the version
\* byte, with S1 unread and the stream still taking writes
C30_Refused ==
  /\ hs.role = "client"
  /\ hs.pc = Done
  /\ hs.arrived = <<RTMPVersion + 1>> \o Block(1)
  /\ hs.rd = Block(1)
  /\ ~hs.wbroken
  /\ Len(hs.wr) = 1 + HandshakeSize
  /\ hs.err[1].kind = ErrUnsupportedVersion

\* ------------------------------------------------------------------------
\* The header a chunk stream keeps between messages
\* ------------------------------------------------------------------------
\* the header of the message returned last from chunk stream c
LastHeaderOn(c) == ReceivedOn(c)[Len(ReceivedOn(c))].msg.Header

\* the returned messages before the j-th that came from its chunk stream
ReturnedBefore(j) == {i \in 1..(j - 1) : received[i].csid = received[j].csid}

\* header h, begun by a chunk of format f, takes from header p the fields
\* that format leaves out
Reconstructs(h, f, p) ==
  /\ f >= FmtType1 => h.MessageStreamID = p.MessageStreamID
  /\ f >= FmtType2 => /\ h.MessageLength = p.MessageLength
                      /\ h.MessageTypeID = p.MessageTypeID
  /\ f \in {FmtType1, FmtType2} =>
       h.Timestamp = Add32(p.Timestamp, h.TimestampDelta)
  /\ f = FmtType3 => h.Timestamp = Add32(p.Timestamp, p.TimestampDelta)

\* C31: when a message completes on a chunk stream its buffers are handed
\* off and BytesRead is 0 again, while the header of the completed message
\* stays: a later message that starts there with a fmt 1, 2 or 3 chunk takes
\* the fields its header leaves out from the message completed last on that
\* chunk stream, and the kept header changes only once a new message has
\* started.
C31_HeaderPersistence ==
  /\ \A j \in DOMAIN received :
       LET cs == received[j].streamsAfter[received[j].csid]
       IN  /\ cs.BytesRead = 0
           /\ cs.buffers = <<>>
           /\ cs.MessageHeader = received[j].msg.Header
           /\ cs.PrevHeader = received[j].msg.Header
           /\ ReturnedBefore(j) # {} =>
                Reconstructs(received[j].msg.Header,
                             received[j].chunks[1].fmt,
                             received[CHOOSE i \in ReturnedBefore(j) :
                                        \A k \in ReturnedBefore(j) : k <= i]
                               .msg.Header)
  /\ \A c \in DOMAIN reader.chunkStreams :
       ReceivedOn(c) # <<>> =>
         /\ reader.chunkStreams[c].PrevHeader = LastHeaderOn(c)
         /\ reader.chunkStreams[c].BytesRead = 0 =>
              reader.chunkStreams[c].MessageHeader = LastHeaderOn(c)

\* timestamp 0, then 0xFFFFFE with another length: the second message came
\* as fmt 1 in two chunks and got its stream id from the first
C31_Witness ==
  /\ Len(received) = 2
  /\ received[1].csid = received[2].csid
  /\ received[2].chunks[1].fmt = FmtType1
  /\ Len(received[2].chunks) = 2
  /\ received[1].msg.Header.MessageStreamID = <<0, 2>>
  /\ received[2].msg.Header.MessageStreamID = <<0, 2>>
  /\ received[1].msg.Header.Timestamp = U32Zero
  /\ received[2].msg.Header.Timestamp = <<255, 65534>>
  /\ Len(received[1].msg.data) # Len(received[2].msg.data)
  /\ received[2].msg.data = written[2].msg.data

\* ------------------------------------------------------------------------
\* Acknowledgements when the byte count passes 2^32
\* ------------------------------------------------------------------------
\* In this part the uint64 counters bytesRead and lastAckSent are pairs
\* <<hi, lo>> that stand for hi * 2^16 + lo, hi not cut to 16 bits.

\* calls of ReadMessage in one run
MaxWrapReads == 4

\* a + b for a uint64 a and a uint32 b
Add64(a, b) ==
  LET lo == a[2] + b[2]
  IN  <<a[1] + b[1] + (lo \div Half), lo % Half>>

\* a - b for uint64 a >= b
Sub64(a, b) ==
  LET borrow == IF a[2] < b[2] THEN 1 ELSE 0
  IN  <<a[1] - b[1] - borrow, (a[2] - b[2] + Half) % Half>>

\* a >= b
GE64(a, b) == a[1] > b[1] \/ (a[1] = b[1] /\ a[2] >= b[2])

\* a uint32 that stays at 2^32 - 1 once the count is above it
Saturate32(a) == IF a[1] >= Half THEN <<Half - 1, Half - 1>> ELSE a

\* uint32(bytesRead) of a uint64
Trunc64(a) == <<a[1] % Half, a[2]>>

\* Transport.sendAcknowledgement(bytesRead) with the uint64 count
sendAcknowledgement64(st, bytesRead) ==
  TransportWriteMessage(st,
    NewMessage(NewMessageHeader(U32Zero, U32Zero, MsgTypeAcknowledgement),
               PutUint32BE(Trunc64(bytesRead))))

\* the loop of handleAckWindow on the uint64 counters
RECURSIVE AckLoop64(_)
AckLoop64(st) ==
  IF /\ st.err = ""
     /\ GE64(Sub64(st.conn.bytesRead, st.transport.lastAckSent),
             st.transport.windowAckSize)
    THEN AckLoop64(sendAcknowledgement64(
           [st EXCEPT !.transport.lastAckSent =
                        Add64(@, st.transport.windowAckSize)],
           Add64(st.transport.lastAckSent, st.transport.windowAckSize)))
    ELSE st

\* the byte counts the connection may have reached when the remote end set
\* the window: 2^32 - 6, 2^32 - 20 and 2^33 - 3
WrapStarts == {<<65535, 65530>>, <<65535, 65516>>, <<131071, 65533>>}

\* the windows the remote end set
WrapWindows == {<<0, 2>>, <<0, 5>>}

\* the bytes one call of ReadMessage reads: a fmt-3 chunk with one or two
\* payload bytes, a fmt-0 chunk with one
WrapReads == {2, 3, 13}

\* a connection on which the remote end set the ACK window after some
\* 2^32 bytes: lastAckSent is the count at that moment
InitWrap ==
  /\ reader = NewReader
  /\ writer = NewWriter
  /\ peer = NewPeer
  /\ inWire = <<>>
  /\ outWire = <<>>
  /\ written = <<>>
  /\ received = <<>>
  /\ chunkLog = EmptyMap
  /\ calls = <<>>
  /\ rerr = ""
  /\ hs = NoHandshake
  /\ \E b \in WrapStarts, w \in WrapWindows :
       /\ conn = [newMeteredConn EXCEPT !.bytesRead = b]
       /\ transport = [NewTransport EXCEPT !.windowAckSize = w,
                                           !.lastAckSent = b]
       /\ heap = [bufs |-> <<>>, msgs |-> <<>>, log |-> <<>>, start |-> b]

\* Transport.ReadMessage returns a message for which the connection read n
\* bytes: meteredConn counts them, then handleAckWindow
WrapReadMessage(n) ==
  /\ Len(calls) < MaxWrapReads
  /\ LET st == AckLoop64([Here EXCEPT !.conn.bytesRead =
                                        Add64(@, U32FromNat(n))])
     IN  /\ conn' = st.conn
         /\ transport' = st.transport
         /\ writer' = st.writer
         /\ outWire' = st.outWire
         /\ written' = st.written
         /\ calls' = Append(calls, [n |-> n,
                                    before |-> <<conn.bytesRead,
                                                 transport.lastAckSent>>,
                                    after |-> <<st.conn.bytesRead,
                                                st.transport.lastAckSent>>])
  /\ UNCHANGED <<aside, reader, peer, inWire, received, chunkLog, rerr>>

NextWrap == \E n \in WrapReads : WrapReadMessage(n)

SpecWrap == InitWrap /\ [][NextWrap]_vars

\* the Acknowledgements written so far
AcksWritten == SelectSeq(written, IsAck)

\* the uint64 value of the k-th window boundary after the start
RECURSIVE Boundary(_)
Boundary(k) ==
  IF k = 0 THEN heap.start
  ELSE Add64(Boundary(k - 1), transport.windowAckSize)

\* C32: each Acknowledgement carries the 64-bit window boundary
\* lastAckSent modulo 2^32 as a big-endian u32: past 2^32 - 1 the value on
\* the wire wraps, while bytesRead and lastAckSent never decrease and one
\* Acknowledgement goes out for every window.
C32_AckWraps ==
  /\ \A k \in DOMAIN AcksWritten :
       /\ Len(AcksWritten[k].msg.data) = 4
       /\ readUint32BE(AcksWritten[k].msg.data, 0)
            = <<Boundary(k)[1] % Half, Boundary(k)[2]>>
  /\ transport.lastAckSent = Boundary(Len(AcksWritten))
  /\ GE64(conn.bytesRead, transport.lastAckSent)
  /\ ~GE64(conn.bytesRead, Boundary(Len(AcksWritten) + 1))
  /\ \A i \in DOMAIN calls :
       /\ calls[i].after[1] = Add64(calls[i].before[1], U32FromNat(calls[i].n))
       /\ GE64(calls[i].after[2], calls[i].before[2])

\* the count went from below 2^32 to above it: an Acknowledgement carries a
\* smaller value than the one before it
C32_Witness ==
  /\ heap.start[1] < Half
  /\ transport.lastAckSent[1] >= Half
  /\ \E k \in DOMAIN AcksWritten :
       /\ k > 1
       /\ LT32(readUint32BE(AcksWritten[k].msg.data, 0),
               readUint32BE(AcksWritten[k - 1].msg.data, 0))

\* ------------------------------------------------------------------------
\* The answer to a connect command
\* ------------------------------------------------------------------------
DefaultWindowAckSize == <<38, 9632>>
DefaultPeerBandwidth == <<38, 9632>>

\* the configurations of a connection: DefaultConfig and two other chunk
\* sizes
Configs ==
  {[WindowAckSize |-> DefaultWindowAckSize,
    PeerBandwidth |-> DefaultPeerBandwidth,
    ChunkSize |-> s] : s \in {2, DefaultChunkSize, 4096}}

\* NewConnectResponseMessage: the _result command on message stream 0; its
\* AMF payload is three bytes here
ConnectResponse ==
  NewMessage(NewMessageHeader(U32Zero, U32Zero, MsgTypeAMF0Command), Payload(3))

\* Conn.WriteMessage(msg) on the end state st
ConnWrite(st, msg) ==
  IF DirectlyRejected(msg.Header.MessageTypeID)
    THEN Failed(st, "cannot send directly")
    ELSE TransportWriteMessage(st, msg)

SendWindowAckSize(st, size) ==
  ConnWrite(st, ControlMessage(MsgTypeWindowAckSize, PutUint32BE(size)))

SendSetPeerBW(st, size, limitType) ==
  ConnWrite(st, ControlMessage(MsgTypeSetPeerBW,
                               PutUint32BE(size) \o <<limitType>>))

\* SendSetChunkSize: the message through Conn.WriteMessage, then
\* Transport.SetOutChunkSize
SendSetChunkSize(st, size) ==
  LET sent == ConnWrite(st, ControlMessage(MsgTypeSetChunkSize,
                                           PutUint32BE(U32FromNat(size))))
  IN  IF sent.err # "" THEN sent ELSE SetOutChunkSize(sent, size)

\* a sequence of sends that stops at the first error
Then(st, next) == IF st.err # "" THEN st ELSE next

\* HandleConnect(conn, msg); decoded tells that DecodeCommand and
\* ParseConnect accept the message
HandleConnect(st, config, decoded) ==
  IF ~decoded THEN Failed(st, "failed to decode connect command")
  ELSE
    LET a == SendWindowAckSize(st, config.WindowAckSize)
        b == Then(a, SendSetPeerBW(a, config.PeerBandwidth, 2))
        c == Then(b, SendSetChunkSize(b, config.ChunkSize))
    IN  Then(c, ConnWrite(c, ConnectResponse))

\* the server handles a connect command on the connection
ConnHandleConnect(config, decoded) ==
  /\ Len(calls) < MaxCalls
  /\ ConnDone("HandleConnect", [config |-> config, decoded |-> decoded],
              HandleConnect(Here, config, decoded))

NextConnect ==
  \/ \E config \in Configs, decoded \in BOOLEAN :
       ConnHandleConnect(config, decoded)
  \/ \E msg \in ConnMessages : ConnWriteMessage(msg)
  \/ \E size \in {0, 2} : ConnSetChunkSize(size)

SpecConnect == Init /\ [][NextConnect]_vars

\* the message types of the last four messages written
LastFourTypes ==
  [k \in 1..4 |-> written[Len(written) - 4 + k].msg.Header.MessageTypeID]

\* C33: HandleConnect, given a valid connect command, returns nil after it
\* has put on the wire a WindowAckSize, a SetPeerBandwidth, a SetChunkSize
\* and the _result response, in this order; the SetChunkSize and what comes
\* before it are cut with the outgoing chunk size of before the call.
C33_ConnectResponse ==
  (/\ calls # <<>>
   /\ calls[Len(calls)].name = "HandleConnect"
   /\ calls[Len(calls)].msg.decoded) =>
    /\ ~calls[Len(calls)].err
    /\ Len(written) >= 4
    /\ LastFourTypes = <<MsgTypeWindowAckSize, MsgTypeSetPeerBW,
                         MsgTypeSetChunkSize, MsgTypeAMF0Command>>
    /\ \A k \in 1..3 :
         written[Len(written) - 4 + k].chunkSize
           = calls[Len(calls)].before.writer.chunkSize
    /\ outWire = calls[Len(calls)].before.outWire
                   \o Flatten(written[Len(written) - 3].chunks)
                   \o Flatten(written[Len(written) - 2].chunks)
                   \o Flatten(written[Len(written) - 1].chunks)
                   \o Flatten(written[Len(written)].chunks)

\* ------------------------------------------------------------------------
\* The basic header, written and read back
\* ------------------------------------------------------------------------
\* chunk stream ids at the ends of the three forms, and ids whose low byte,
\* high byte or both are 0 or 255 after the subtraction of 64
BasicIDs ==
  {2, 3, 62, 63, 64, 65, 255, 256, 318, 319, 320, 321, 575, 576,
   32831, 32832, 65343, 65344, 65598, 65599}

\* what follows the basic header in the buffer
BasicRests == {<<>>, <<255>>}

\* a basic header and an empty buffer
InitBasic ==
  /\ reader = NewReader
  /\ writer = NewWriter
  /\ conn = newMeteredConn
  /\ transport = NewTransport
  /\ peer = NewPeer
  /\ inWire = <<>>
  /\ outWire = <<>>
  /\ written = <<>>
  /\ received = <<>>
  /\ chunkLog = EmptyMap
  /\ calls = <<>>
  /\ rerr = ""
  /\ hs = NoHandshake
  /\ \E f \in 0..3, c \in BasicIDs, rest \in BasicRests :
       heap = [bufs |-> <<>>, msgs |-> <<>>, log |-> <<>>,
               fmt |-> f, chunkStreamID |-> c, rest |-> rest, back |-> <<>>]

\* h.WriteTo(w) into the buffer, followed by the rest
BasicWriteTo ==
  /\ calls = <<>>
  /\ LET bytes == BasicHeaderWriteTo(heap.fmt, heap.chunkStreamID)
     IN  /\ inWire' = bytes \o heap.rest
         /\ calls' = <<[name |-> "WriteTo", bytes |-> bytes,
                        n |-> Len(bytes)]>>
  /\ UNCHANGED <<aside, reader, writer, conn, transport, peer, outWire,
                 written, received, chunkLog, rerr>>

\* readBasicHeader(r) from the buffer
BasicRead ==
  /\ Len(calls) = 1
  /\ LET bh == readBasicHeader(inWire, 0)
     IN  /\ heap' = [heap EXCEPT !.back = <<bh>>]
         /\ inWire' = Drop(inWire, bh.n)
         /\ calls' = Append(calls, [name |-> "readBasicHeader",
                                    bytes |-> Slice(inWire, 0, bh.n),
                                    n |-> bh.n])
  /\ UNCHANGED <<hs, reader, writer, conn, transport, peer, outWire,
                 written, received, chunkLog, rerr>>

NextBasic ==
  \/ BasicWriteTo
  \/ BasicRead

SpecBasic == InitBasic /\ [][NextBasic]_vars

\* the form the claim gives for a chunk stream id
BasicForm(f, c, bytes) ==
  /\ c \in 2..63 => bytes = <<f * 64 + c>>
  /\ c \in 64..319 => bytes = <<f * 64, c - 64>>
  /\ c \in 320..65599 =>
       /\ Len(bytes) = 3
       /\ bytes[1] = f * 64 + 1
       /\ bytes[2] \in 0..255 /\ bytes[3] \in 0..255
       /\ bytes[2] + 256 * bytes[3] = c - 64

\* C34: for every format 0..3 and every chunk stream id 2..65599 the basic
\* header that basicHeader.WriteTo writes reads back with the same format
\* and the same id; it has 1 byte for ids 2..63, 2 bytes (the second is
\* id - 64) for 64..319 and 3 bytes (id - 64 little-endian) for 320..65599.
C34_BasicHeaderRoundTrip ==
  /\ calls # <<>> =>
       BasicForm(heap.fmt, heap.chunkStreamID, calls[1].bytes)
  /\ Len(calls) = 2 =>
       /\ heap.back[1].ok
       /\ heap.back[1].fmt = heap.fmt
       /\ heap.back[1].chunkStreamID = heap.chunkStreamID
       /\ calls[2].bytes = calls[1].bytes
       /\ inWire = heap.rest

C34_Witness ==
  /\ Len(calls) = 2
  /\ heap.fmt = 3
  /\ heap.chunkStreamID = 65599
  /\ calls[1].bytes = <<193, 255, 255>>
  /\ heap.rest = <<255>>
  /\ heap.back[1].chunkStreamID = 65599

\* ------------------------------------------------------------------------
\* The header the writer keeps and the header the peer has
\* ------------------------------------------------------------------------
\* the calls of WriteMessage that put at least one chunk on chunk stream c
EmittedOn(c) ==
  {i \in 1..Len(written) : written[i].csid = c /\ written[i].chunks # <<>>}

LastOf(S) == CHOOSE i \in S : \A j \in S : j <= i

\* C35: after successful WriteMessage calls the previous header the writer
\* keeps for a chunk stream is the header of the last message whose chunks
\* were emitted on it; a message with an empty payload either has its chunk
\* header emitted or leaves the kept header as it was.
C35_PrevHeaderEmitted ==
  \A c \in DOMAIN writer.prevHeaders :
    /\ EmittedOn(c) # {}
    /\ writer.prevHeaders[c] = written[LastOf(EmittedOn(c))].header

\* the same for the chunk streams on which every message had a payload
C35_NonEmpty ==
  \A c \in DOMAIN writer.prevHeaders :
    (\A i \in 1..Len(written) :
       written[i].csid = c => written[i].chunks # <<>>) =>
      /\ EmittedOn(c) # {}
      /\ writer.prevHeaders[c] = written[LastOf(EmittedOn(c))].header

\* ------------------------------------------------------------------------
\* The ACK window after a return
\* ------------------------------------------------------------------------
\* ReadMessage returned a message and the transport has not read since
JustReturned ==
  /\ rerr = ""
  /\ received # <<>>
  /\ conn.bytesRead = received[Len(received)].bytesRead

\* C36: in every state in which Transport.ReadMessage has returned a
\* message, lastAckSent is at most the bytes read, and with a window above 0
\* the bytes read since lastAckSent are fewer than the window: no window
\* boundary that was crossed is left without its Acknowledgement.
C36_AckWindowInvariant ==
  JustReturned =>
    /\ transport.lastAckSent <= conn.bytesRead
    /\ transport.windowAckSize # U32Zero =>
         conn.bytesRead - transport.lastAckSent
           < U32ToNat(transport.windowAckSize)

\* the last call crossed two boundaries of a window set after bytes had been
\* read, and stopped between two boundaries
C36_Witness ==
  /\ JustReturned
  /\ transport.windowAckSize # U32Zero
  /\ received[Len(received)].wto >= received[Len(received)].wfrom + 2
  /\ received[Len(received)].before.lastAckSent > 0
  /\ transport.lastAckSent < conn.bytesRead

\* ------------------------------------------------------------------------
\* A client and a server handshake with each other
\* ------------------------------------------------------------------------
\* the stream between the two: a socket takes every write at once and
\* delivers later; a pipe (net.Pipe) hands the bytes of a write to the reads
\* of the other end and lets the write return when all of them are read
StreamKinds == {"socket", "pipe"}

\* the bytes one delivery can bring
Segments == {500, 1024, HandshakeSize}

\* hs is the server, heap.client the client; inWire holds the bytes the
\* client wrote that have not reached the server, outWire those of the
\* server that have not reached the client
InitPair ==
  /\ reader = NewReader
  /\ writer = NewWriter
  /\ conn = newMeteredConn
  /\ transport = NewTransport
  /\ peer = NewPeer
  /\ inWire = <<>>
  /\ outWire = <<>>
  /\ written = <<>>
  /\ received = <<>>
  /\ chunkLog = EmptyMap
  /\ calls = <<>>
  /\ rerr = ""
  /\ hs = NewHandshake("server")
  /\ \E kind \in StreamKinds :
       heap = [bufs |-> <<>>, msgs |-> <<>>, log |-> <<>>,
               stream |-> kind, client |-> NewHandshake("client")]

\* the bytes step h2 wrote after h
WrittenBy(h, h2) == SubSeq(h2.wr, Len(h.wr) + 1, Len(h2.wr))

\* the last Write on a wire has returned
WriteReturned(wire) == heap.stream = "socket" \/ wire = <<>>

\* the bytes the read at position pc asks for: 0 when it is a write
ServerWants(pc) ==
  CASE pc = 1 -> 1 [] pc \in {2, 6} -> HandshakeSize [] OTHER -> 0

ClientWants(pc) ==
  CASE pc = 3 -> 1 [] pc \in {4, 5} -> HandshakeSize [] OTHER -> 0

PairRest == <<reader, writer, conn, transport, peer, written, received,
              chunkLog, calls, rerr>>

\* ServerHandshake(rw) makes its next read or write
PairServer ==
  /\ hs.pc < Done
  /\ WriteReturned(outWire)
  /\ Len(hs.rd) >= ServerWants(hs.pc)
  /\ \E seed \in Seeds :
       LET h2 == ServerStep(hs, Block(seed), 0)
       IN  /\ hs' = h2
           /\ outWire' = outWire \o WrittenBy(hs, h2)
  /\ UNCHANGED <<PairRest, heap, inWire>>

\* ClientHandshake(rw) makes its next read or write
PairClient ==
  /\ heap.client.pc < Done
  /\ WriteReturned(inWire)
  /\ Len(heap.client.rd) >= ClientWants(heap.client.pc)
  /\ \E seed \in Seeds :
       LET h2 == ClientStep(heap.client, Block(seed), 0)
       IN  /\ heap' = [heap EXCEPT !.client = h2]
           /\ inWire' = inWire \o WrittenBy(heap.client, h2)
  /\ UNCHANGED <<PairRest, hs, outWire>>

\* the end h can take bytes now: always on a socket, on a pipe only inside
\* a read that still misses bytes
Takes(h, wants) ==
  heap.stream = "socket" \/ (h.pc < Done /\ Len(h.rd) < wants)

\* bytes of the client reach the server
DeliverToServer ==
  /\ inWire # <<>>
  /\ Takes(hs, ServerWants(hs.pc))
  /\ \E n \in Segments :
       LET k == Min(n, Len(inWire))
       IN  /\ hs' = [hs EXCEPT !.rd = @ \o SubSeq(inWire, 1, k),
                               !.arrived = @ \o SubSeq(inWire, 1, k)]
           /\ inWire' = Drop(inWire, k)
  /\ UNCHANGED <<PairRest, heap, outWire>>

\* bytes of the server reach the client
DeliverToClient ==
  /\ outWire # <<>>
  /\ Takes(heap.client, ClientWants(heap.client.pc))
  /\ \E n \in Segments :
       LET k == Min(n, Len(outWire))
       IN  /\ heap' = [heap EXCEPT
                         !.client.rd = @ \o SubSeq(outWire, 1, k),
                         !.client.arrived = @ \o SubSeq(outWire, 1, k)]
           /\ outWire' = Drop(outWire, k)
  /\ UNCHANGED <<PairRest, hs, inWire>>

NextPair ==
  \/ PairServer
  \/ PairClient
  \/ DeliverToServer
  \/ DeliverToClient

SpecPair == InitPair /\ [][NextPair]_vars

\* both goroutines are scheduled again and again, and the stream delivers
\* what was written
FairPair ==
  /\ SpecPair
  /\ WF_vars(PairServer)
  /\ WF_vars(PairClient)
  /\ WF_vars(DeliverToServer)
  /\ WF_vars(DeliverToClient)

\* both handshakes have returned nil: the server has read C0, C1 and C2, the
\* client S0, S1 and S2
BothReturned ==
  /\ hs.pc = Done /\ hs.err = <<>> /\ WriteReturned(outWire)
  /\ heap.client.pc = Done /\ heap.client.err = <<>> /\ WriteReturned(inWire)
  /\ hs.ops = ServerOps
  /\ heap.client.ops = ClientOps
  /\ hs.arrived = heap.client.wr
  /\ Len(hs.arrived) = 1 + 2 * HandshakeSize
  /\ heap.client.arrived = hs.wr
  /\ Len(heap.client.arrived) = 1 + 2 * HandshakeSize

\* C37: when ClientHandshake and ServerHandshake run against each other over
\* a reliable full-duplex byte stream, neither waits for bytes the other
\* cannot yet send: under fair scheduling both eventually return nil, the
\* server having received C0, C1 and C2 and the client S0, S1 and S2.
C37_HandshakeCompletes == <>[]BothReturned

\* both have returned over a pipe, whose writes wait for the reads
C37_Witness ==
  /\ BothReturned
  /\ heap.stream = "pipe"
  /\ hs.s1 = heap.client.s1

\* ------------------------------------------------------------------------
\* One media message sent to the subscribers of a stream
\* ------------------------------------------------------------------------
\* subscribers of the stream, and media messages the publisher sends
MaxSubscribers == 3

MaxMedia == 2

\* the publisher's session before its first ReadMessage: subs is the number
\* of subscribers of its stream, at the statement of Session.Run and
\* broadcastToSubscribers it is at, i the subscriber the loop is at, cur the
\* message read, shared the message made for that subscriber, base the
\* reference count when broadcastToSubscribers was entered
InitCast ==
  /\ reader = NewReader
  /\ writer = NewWriter
  /\ conn = newMeteredConn
  /\ transport = NewTransport
  /\ peer = NewPeer
  /\ inWire = <<>>
  /\ outWire = <<>>
  /\ written = <<>>
  /\ received = <<>>
  /\ chunkLog = EmptyMap
  /\ calls = <<>>
  /\ rerr = ""
  /\ hs = NoHandshake
  /\ \E n \in 0..MaxSubscribers :
       heap = [bufs |-> <<>>, msgs |-> <<>>, log |-> <<>>, subs |-> n,
               at |-> "read", i |-> 0, cur |-> 0, shared |-> 0, base |-> 0]

CastRest == <<reader, writer, conn, transport, peer, inWire, outWire,
              written, received, chunkLog, calls, rerr, hs>>

\* the heap after a call on message m that left it as after
CastDone(op, m, arg, after) ==
  /\ heap' = [after EXCEPT !.log = Append(@,
                 HeapEntry(op, after.msgs[m].buffer, m, arg, heap, after))]
  /\ UNCHANGED CastRest

\* the stream id of the i-th subscriber
SubscriberStreamID(i) == <<0, i>>

\* the loop of broadcastToSubscribers goes to its next subscriber, or ends
NextSubscriber(h) ==
  IF h.i < h.subs THEN [h EXCEPT !.at = "share", !.i = @ + 1]
                  ELSE [h EXCEPT !.at = "return"]

\* Session.Run: s.conn.ReadMessage() returns a media message in a buffer of
\* the pool; handleMessage enters broadcastToSubscribers
CastRead(header, data) ==
  /\ heap.at = "read"
  /\ Len(heap.bufs) < MaxMedia
  /\ CastDone("New", Len(heap.msgs) + 1, 0,
       NextSubscriber(
         [heap EXCEPT
            !.bufs = Append(@, NewWithFinalizer(data, TRUE)),
            !.msgs = Append(@,
              NewMessageFromBuffer(header,
                Append(heap.bufs, NewWithFinalizer(data, TRUE)),
                Len(heap.bufs) + 1)),
            !.cur = Len(heap.msgs) + 1,
            !.i = 0,
            !.shared = 0,
            !.base = 1]))

\* sharedMsg := msg.Share(sub.streamID)
CastShare ==
  /\ heap.at = "share"
  /\ CastDone("Share", heap.cur, SubscriberStreamID(heap.i),
       [Share(heap, heap.cur, SubscriberStreamID(heap.i))
          EXCEPT !.at = "write", !.shared = Len(heap.msgs) + 1])

\* sub.conn.WriteMessage(sharedMsg) starts to read the payload
CastWrite ==
  /\ heap.at = "write"
  /\ heap' = [heap EXCEPT !.at = "writing"]
  /\ UNCHANGED CastRest

\* sub.conn.WriteMessage(sharedMsg) returns, with nil or with an error
CastWritten(ok) ==
  /\ heap.at = "writing"
  /\ CastDone("Write", heap.shared, ok, [heap EXCEPT !.at = "release"])

\* sharedMsg.Release()
CastRelease ==
  /\ heap.at = "release"
  /\ CastDone("Release", heap.shared, 0,
       NextSubscriber(MessageRelease(heap, heap.shared)))

\* broadcastToSubscribers and handleMessage return
CastReturn ==
  /\ heap.at = "return"
  /\ heap' = [heap EXCEPT !.at = "final"]
  /\ UNCHANGED CastRest

\* Session.Run: msg.Release() after handleMessage
CastFinal ==
  /\ heap.at = "final"
  /\ CastDone("Release", heap.cur, 0,
       [MessageRelease(heap, heap.cur) EXCEPT !.at = "read"])

NextCast ==
  \/ \E header \in HeapHeaders, n \in 1..2 : CastRead(header, Payload(n))
  \/ CastShare
  \/ CastWrite
  \/ \E ok \in BOOLEAN : CastWritten(ok)
  \/ CastRelease
  \/ CastReturn
  \/ CastFinal

SpecCast == InitCast /\ [][NextCast]_vars

\* the message of entry e is the one ReadMessage returned
OnOriginal(e) ==
  \E k \in DOMAIN heap.log : heap.log[k].op = "New" /\ heap.log[k].msg = e.msg

\* C38: in the fan-out of one received media message to N subscribers every
\* Share is followed by the write to that subscriber and then by exactly one
\* Release of the shared message, so the reference count after
\* broadcastToSubscribers is the one before it; the finalizer of the buffer
\* runs exactly once, at the final Release of the publisher's session, and
\* never while a shared message is being written.
C38_FanoutBalance ==
  /\ \A k \in DOMAIN heap.log :
       heap.log[k].op = "Share" =>
         /\ k + 1 <= Len(heap.log) =>
              /\ heap.log[k + 1].op = "Write"
              /\ heap.log[k + 1].msg = Len(heap.log[k].msgsAfter)
         /\ k + 2 <= Len(heap.log) =>
              /\ heap.log[k + 2].op = "Release"
              /\ heap.log[k + 2].msg = Len(heap.log[k].msgsAfter)
         /\ k + 3 <= Len(heap.log) =>
              heap.log[k + 3].msg # Len(heap.log[k].msgsAfter)
  /\ heap.at \in {"return", "final"} =>
       /\ heap.bufs[heap.msgs[heap.cur].buffer].refCount = heap.base
       /\ Len(SelectSeq(heap.log,
                LAMBDA e : e.op = "Share" /\ e.msg = heap.cur)) = heap.subs
  /\ heap.at \in {"write", "writing", "release"} =>
       /\ heap.bufs[heap.msgs[heap.shared].buffer].finalized = 0
       /\ heap.bufs[heap.msgs[heap.shared].buffer].refCount = heap.base + 1
  /\ \A k \in DOMAIN heap.log :
       Ran(heap.log[k]) <=>
         /\ heap.log[k].op = "Release"
         /\ OnOriginal(heap.log[k])
  /\ \A b \in DOMAIN heap.bufs :
       heap.bufs[b].finalized =
         (IF heap.at = "read" \/ b < Len(heap.bufs) THEN 1 ELSE 0)

\* the second message went to three subscribers, one write failed, and the
\* publisher's session released it last
C38_Witness ==
  /\ heap.subs = 3
  /\ heap.at = "read"
  /\ Len(heap.bufs) = 2
  /\ heap.bufs[2].finalized = 1
  /\ heap.bufs[2].refCount = 0
  /\ \E k \in DOMAIN heap.log :
       heap.log[k].op = "Write" /\ heap.log[k].arg = FALSE
                                /\ heap.log[k].buf = 2

\* ------------------------------------------------------------------------
\* The order of the writes of one ReadMessage
\* ------------------------------------------------------------------------
\* the messages written in the call that returned the i-th message
WrittenIn(i) == SubSeq(written, received[i].wfrom + 1, received[i].wto)

\* C39: a Transport.ReadMessage call that receives a PingRequest and crosses
\* one or more ACK window boundaries writes the PingResponse before the
\* Acknowledgements, and all of them are on the wire before the message is
\* returned.
C39_PongBeforeAcks ==
  /\ \A i \in 1..Len(received) :
       (IsPing(received[i]) /\ Len(SelectSeq(WrittenIn(i), IsAck)) >= 1) =>
         /\ IsPong(WrittenIn(i)[1])
         /\ \A k \in 2..Len(WrittenIn(i)) : IsAck(WrittenIn(i)[k])
         /\ Len(WrittenIn(i)) >= 2
         /\ received[i].wto <= Len(written)
         /\ i < Len(received) => received[i].wto = received[i + 1].wfrom
         /\ i = Len(received) => received[i].wto = Len(written)
  /\ conn.wbuf = <<>>
  /\ outWire = WireOf(written)

\* a ping was returned by a call that also wrote two Acknowledgements
C39_Witness ==
  \E i \in 1..Len(received) :
    /\ IsPing(received[i])
    /\ Len(WrittenIn(i)) = 3
    /\ IsPong(WrittenIn(i)[1])
    /\ IsAck(WrittenIn(i)[2])
    /\ IsAck(WrittenIn(i)[3])

\* ------------------------------------------------------------------------
\* The registry of streams and the sessions that play and close
\* ------------------------------------------------------------------------
\* sessions of one run, and Stream objects made in it
MaxSessions == 3

MaxStreams == 2

Sessions == 1..MaxSessions

StreamKeys == {"live"}

\* NewServer and the sessions after NewSession: streams is the registry (0
\* for a key that is not in the map), objs the Stream objects ever made;
\* a session is at a statement of its handlers, holds the object of its
\* local variable stream (0 for none), and has its mode and stream key
InitPlay ==
  /\ reader = NewReader
  /\ writer = NewWriter
  /\ conn = newMeteredConn
  /\ transport = NewTransport
  /\ peer = NewPeer
  /\ inWire = <<>>
  /\ outWire = <<>>
  /\ written = <<>>
  /\ received = <<>>
  /\ chunkLog = EmptyMap
  /\ calls = <<>>
  /\ rerr = ""
  /\ hs = NoHandshake
  /\ heap = [bufs |-> <<>>, msgs |-> <<>>, log |-> <<>>,
             streams |-> [k \in StreamKeys |-> 0],
             objs |-> <<>>,
             sess |-> [s \in Sessions |->
                         [at |-> "idle", stream |-> 0, mode |-> "",
                          streamKey |-> ""]]]

\* Server.GetOrCreateStream(key) by session s, which goes on at next
GetOrCreateStream(h, s, key, next) ==
  IF h.streams[key] # 0
    THEN [h EXCEPT !.sess[s].stream = h.streams[key],
                   !.sess[s].at = next]
    ELSE [h EXCEPT
            !.objs = Append(@, [key |-> key, publisher |-> 0,
                                subscribers |-> {}]),
            !.streams[key] = Len(h.objs) + 1,
            !.sess[s].stream = Len(h.objs) + 1,
            !.sess[s].at = next]

\* GetOrCreateStream can be followed in this run
CanGet(key) == heap.streams[key] # 0 \/ Len(heap.objs) < MaxStreams

\* Server.RemoveStream(key): the stream leaves the map when it has neither
\* a publisher nor subscribers
RemoveStream(h, key) ==
  IF h.streams[key] = 0 THEN h
  ELSE IF /\ h.objs[h.streams[key]].publisher = 0
          /\ h.objs[h.streams[key]].subscribers = {}
         THEN [h EXCEPT !.streams[key] = 0]
         ELSE h

PlayDone(after) ==
  /\ heap' = after
  /\ UNCHANGED CastRest

\* Session.handlePlay up to s.server.GetOrCreateStream(playCmd.StreamKey)
PlayGetStream(s, key) ==
  /\ heap.sess[s].at = "idle"
  /\ CanGet(key)
  /\ PlayDone(GetOrCreateStream(
       [heap EXCEPT !.sess[s].mode = "play", !.sess[s].streamKey = key],
       s, key, "AddSubscriber"))

\* Session.handlePlay from stream.AddSubscriber(s) to its return
PlayAddSubscriber(s) ==
  /\ heap.sess[s].at = "AddSubscriber"
  /\ PlayDone([heap EXCEPT
       !.objs[heap.sess[s].stream].subscribers = @ \cup {s},
       !.sess[s].at = "playing"])

\* Session.handlePublish up to s.server.GetOrCreateStream
PublishGetStream(s, key) ==
  /\ heap.sess[s].at = "idle"
  /\ CanGet(key)
  /\ PlayDone(GetOrCreateStream(
       [heap EXCEPT !.sess[s].mode = "publish", !.sess[s].streamKey = key],
       s, key, "SetPublisher"))

\* Session.handlePublish from stream.SetPublisher(s) to its return
PublishSetPublisher(s) ==
  /\ heap.sess[s].at = "SetPublisher"
  /\ PlayDone([heap EXCEPT
       !.objs[heap.sess[s].stream].publisher = s,
       !.sess[s].at = "publishing"])

\* Session.Close up to s.server.GetOrCreateStream(s.streamKey); a session
\* without a stream key closes its connection at once
CloseGetStream(s) ==
  /\ heap.sess[s].at \in {"idle", "playing", "publishing"}
  /\ IF heap.sess[s].streamKey = ""
       THEN PlayDone([heap EXCEPT !.sess[s].at = "closed"])
       ELSE /\ CanGet(heap.sess[s].streamKey)
            /\ PlayDone(GetOrCreateStream(heap, s, heap.sess[s].streamKey,
                                          "Remove"))

\* Session.Close: stream.RemovePublisher() or stream.RemoveSubscriber(s)
CloseRemove(s) ==
  /\ heap.sess[s].at = "Remove"
  /\ PlayDone(
       IF heap.sess[s].mode = "publish"
         THEN [heap EXCEPT !.objs[heap.sess[s].stream].publisher = 0,
                           !.sess[s].at = "RemoveStream"]
         ELSE [heap EXCEPT
                 !.objs[heap.sess[s].stream].subscribers = @ \ {s},
                 !.sess[s].at = "RemoveStream"])

\* Session.Close: s.server.RemoveStream(s.streamKey), s.netConn.Close()
CloseRemoveStream(s) ==
  /\ heap.sess[s].at = "RemoveStream"
  /\ PlayDone(RemoveStream([heap EXCEPT !.sess[s].at = "closed"],
                           heap.sess[s].streamKey))

NextPlay ==
  \/ \E s \in Sessions, key \in StreamKeys : PlayGetStream(s, key)
  \/ \E s \in Sessions : PlayAddSubscriber(s)
  \/ \E s \in Sessions, key \in StreamKeys : PublishGetStream(s, key)
  \/ \E s \in Sessions : PublishSetPublisher(s)
  \/ \E s \in Sessions : CloseGetStream(s)
  \/ \E s \in Sessions : CloseRemove(s)
  \/ \E s \in Sessions : CloseRemoveStream(s)

SpecPlay == InitPlay /\ [][NextPlay]_vars

\* session s has completed handlePlay and has not closed
Playing(s) == heap.sess[s].at = "playing"

\* C40: a session that has completed handlePlay for stream key K and has
\* not yet closed is a subscriber of the Stream object registered under K:
\* a Session.Close of another session between this session's
\* GetOrCreateStream(K) and AddSubscriber never leaves the new subscriber
\* on a Stream object that has been deleted from the registry.
C40_SubscriberRegistered ==
  \A s \in Sessions :
    Playing(s) =>
      /\ heap.streams[heap.sess[s].streamKey] # 0
      /\ s \in heap.objs[heap.streams[heap.sess[s].streamKey]].subscribers

\* the same for the Stream object the session holds
C40_SubscriberOfOwnStream ==
  \A s \in Sessions :
    Playing(s) => s \in heap.objs[heap.sess[s].stream].subscribers
====
